---- MODULE Spec2Model ----
(***************************************************************************)
(* A model of the scene graph (arena + groups), the intersection record    *)
(* (hit, prepare_computations) and the recursive shader (World.color_at)   *)
(* of the ray tracer.                                                      *)
(*                                                                         *)
(* Conventions                                                             *)
(*  - Arena ids are 0-based as in the source; slot id is objects[id + 1].  *)
(*  - Option<usize> is an integer, NoId standing for None.                 *)
(*  - f64 values are integers on a small lattice, extended by the three    *)
(*    IEEE specials PInf, NInf, NaN; lengths are kept in half-units so     *)
(*    that the halving in BoundingBox::split is exact.                     *)
(*  - A panic leaves a record in `last` (outcome "panic"); what the        *)
(*    panicking call had already written stays written (unwinding).        *)
(***************************************************************************)
EXTENDS Integers, Sequences, FiniteSets, TLC

VARIABLES
    objects,     \* Arena.objects: Vec<Option<Shape>>
    locals,      \* the Group value the scene-assembly code is building, not yet moved into the arena
    last,        \* the last arena/group call: its name, arguments and outcome
    issued,      \* the ids Arena::add and Arena::next_id have returned so far
    probe,       \* the last Group.local_intersect call: ray, children visited, result
    xs,          \* the intersection list handed to Intersection::hit / prepare_computations
    hit_result,  \* what Intersection::hit returned for xs
    comps,       \* the (n1, n2) that prepare_computations computed, and for which position
    object_ids,  \* World.object_ids
    stack,       \* the color_at_internal call stack of one World.color_at call
    world_pc,    \* "idle" | "tracing" | "done" | "panic" | "overflow"
    calc         \* one call of a function of the geometry: its name, arguments and result

arenaVars == <<objects, locals, last, issued, probe>>
xsVars    == <<xs, hit_result, comps>>
traceVars == <<object_ids, stack, world_pc>>
calcVars  == <<calc>>
vars      == <<objects, locals, last, issued, probe, xs, hit_result, comps, object_ids, stack,
               world_pc, calc>>

----------------------------------------------------------------------------
(* Bounds of the model *)

MaxSlots  == 3    \* the arena never grows beyond this many slots
MaxPrims  == 2    \* primitives added to the arena
MaxGroups == 2    \* groups the scene-assembly code creates with Group::new
MaxKids   == 2    \* children the scene-assembly code adds to one group
MaxXs     == 3    \* length of the intersection lists tried (plus the six-hit example)
MaxT      == 1    \* the finite ray parameters tried are -MaxT .. MaxT
StackLimit == 8   \* color_at_internal frames the call stack can hold
MaxDivideKids == 3   \* children of the group that divide is called on
MaxCorner == 1       \* finite box corners are the even numbers from -2 * MaxCorner to 2 * MaxCorner
MaxColor == 2        \* the colors a nested color_at_internal call returns are 0 .. MaxColor
MaxHsize == 2        \* a rendered canvas is at most MaxHsize pixels wide
MaxVsize == 3        \* a rendered canvas is at most MaxVsize pixels high

(* Program constants *)

MAX_REFLECTION_RECURSION == 5

\* f64::MAX, the largest finite f64: above every parameter tried, below infinity
F64_MAX == 999

----------------------------------------------------------------------------
(* f64 on an integer lattice with the IEEE specials *)

PInf == 1000
NInf == -1000
NaN  == 9999

IsNaN(a) == a = NaN

\* a > b on f64: false as soon as one side is NaN
FGt(a, b) == ~IsNaN(a) /\ ~IsNaN(b) /\ a > b
FGe(a, b) == ~IsNaN(a) /\ ~IsNaN(b) /\ a >= b
FLe(a, b) == ~IsNaN(a) /\ ~IsNaN(b) /\ a <= b
FLt(a, b) == ~IsNaN(a) /\ ~IsNaN(b) /\ a < b

\* f64::max / f64::min: a NaN operand is ignored
FMax(a, b) == IF IsNaN(a) THEN b ELSE IF IsNaN(b) THEN a ELSE IF a > b THEN a ELSE b
FMin(a, b) == IF IsNaN(a) THEN b ELSE IF IsNaN(b) THEN a ELSE IF a < b THEN a ELSE b

\* x * INFINITY for a finite x
MulInf(x) == IF x > 0 THEN PInf ELSE IF x < 0 THEN NInf ELSE NaN

\* x / d for finite x and d in {-1, 1}
FDiv(x, d) == IF d > 0 THEN x ELSE -x

FEq(a, b) == ~IsNaN(a) /\ ~IsNaN(b) /\ a = b
FNeg(a)   == IF IsNaN(a) THEN NaN ELSE -a

\* a + b: inf + (-inf) is NaN, inf absorbs every finite value
FAdd(a, b) ==
    IF IsNaN(a) \/ IsNaN(b) THEN NaN
    ELSE IF a = PInf THEN (IF b = NInf THEN NaN ELSE PInf)
    ELSE IF a = NInf THEN (IF b = PInf THEN NaN ELSE NInf)
    ELSE IF b = PInf \/ b = NInf THEN b
    ELSE a + b

FSub(a, b) == FAdd(a, FNeg(b))

\* a / 2.0; exact on the lattice, where every finite extent is even
FHalf(a) == IF IsNaN(a) \/ a = PInf \/ a = NInf THEN a ELSE a \div 2

----------------------------------------------------------------------------
(* Shapes and the arena *)

NoId == -1

NoShape == [kind |-> "none", gid |-> NoId, parent_id |-> NoId,
            children_ids |-> <<>>, tx |-> 0, r |-> 0, mat |-> 0]

\* a primitive with transform translation(tx, 0, 0) * scaling(r, r, r)
Prim(tx, r) == [kind |-> "prim", gid |-> NoId, parent_id |-> NoId,
                children_ids |-> <<>>, tx |-> tx, r |-> r, mat |-> 0]

\* Group::new(id)
Group_new(id) == [id |-> id, children_ids |-> <<>>]

\* Shape::Group(g)
ShapeGroup(g) == [kind |-> "group", gid |-> g.id, parent_id |-> NoId,
                  children_ids |-> g.children_ids, tx |-> 0, r |-> 0, mat |-> 0]

Ids == 0 .. (MaxSlots - 1)

Allocated(objs, id) == id >= 0 /\ id < Len(objs)
Slot(objs, id)      == objs[id + 1]
Filled(objs, id)    == Allocated(objs, id) /\ Slot(objs, id).kind # "none"

Contains(s, x) == \E i \in 1 .. Len(s) : s[i] = x

\* Arena::add
Arena_add(objs, shape) == [objs |-> Append(objs, shape), id |-> Len(objs)]

\* next_id handing out the id without reserving its slot
Arena_next_id_no_push(objs) == [objs |-> objs, id |-> Len(objs)]

\* Arena::next_id
Arena_next_id(objs) == [objs |-> Append(objs, NoShape), id |-> Len(objs)]

\* add_with_id without the is_some check: a filled slot is overwritten
Arena_add_with_id_overwrite(objs, id, shape) ==
    IF id >= Len(objs) THEN [ok |-> FALSE, objs |-> objs]
    ELSE [ok |-> TRUE, objs |-> [objs EXCEPT ![id + 1] = shape]]

\* Arena::add_with_id
Arena_add_with_id(objs, id, shape) ==
    IF id >= Len(objs) THEN [ok |-> FALSE, objs |-> objs]
    ELSE IF Slot(objs, id).kind # "none" THEN [ok |-> FALSE, objs |-> objs]
    ELSE [ok |-> TRUE, objs |-> [objs EXCEPT ![id + 1] = shape]]

\* Arena::get: indexing panics out of range, unwrap panics on None
Arena_get(objs, id) ==
    IF id >= Len(objs) THEN [ok |-> FALSE, shape |-> NoShape]
    ELSE IF Slot(objs, id).kind = "none" THEN [ok |-> FALSE, shape |-> NoShape]
    ELSE [ok |-> TRUE, shape |-> Slot(objs, id)]

\* the closures handed to apply_changes, as a field and the value it is set to:
\* Shape::set_parent_id, and Shape::set_material
Apply(shape, c) ==
    IF c.field = "parent_id" THEN [shape EXCEPT !.parent_id = c.value]
    ELSE IF c.field = "transform" THEN [shape EXCEPT !.tx = c.value.tx, !.r = c.value.r]
    ELSE [shape EXCEPT !.mat = c.value]

\* Shape::set_material panics on a Group
ClosurePanics(shape, c) == c.field = "mat" /\ shape.kind = "group"

\* Arena::apply_changes: indexing panics out of range; a None slot is skipped
Arena_apply_changes(objs, id, c) ==
    IF id >= Len(objs) THEN [ok |-> FALSE, applied |-> FALSE, objs |-> objs]
    ELSE IF Slot(objs, id).kind = "none" THEN [ok |-> TRUE, applied |-> FALSE, objs |-> objs]
    ELSE IF ClosurePanics(Slot(objs, id), c) THEN [ok |-> FALSE, applied |-> FALSE, objs |-> objs]
    ELSE [ok |-> TRUE, applied |-> TRUE,
          objs |-> [objs EXCEPT ![id + 1] = Apply(Slot(objs, id), c)]]

\* Group::add_child
Group_add_child(g, child_id, objs) ==
    IF Contains(g.children_ids, child_id)
    THEN [ok |-> FALSE, g |-> g, objs |-> objs]
    ELSE LET pushed(a) ==
                 IF ~a.ok THEN [ok |-> FALSE, g |-> g, objs |-> objs]
                 ELSE [ok |-> TRUE,
                       g |-> [g EXCEPT !.children_ids = Append(g.children_ids, child_id)],
                       objs |-> a.objs]
         IN  pushed(Arena_apply_changes(objs, child_id, [field |-> "parent_id", value |-> g.id]))

\* Group::add_children: add_child on each id in order, stopping at the first panic
RECURSIVE Group_add_children(_, _, _)
Group_add_children(g, ids, objs) ==
    IF ids = <<>> THEN [ok |-> TRUE, g |-> g, objs |-> objs]
    ELSE LET rest(a) == IF ~a.ok THEN a ELSE Group_add_children(a.g, Tail(ids), a.objs)
         IN  rest(Group_add_child(g, Head(ids), objs))

----------------------------------------------------------------------------
(* Bounding boxes *)

\* BoundingBox::empty
EmptyBox == [minx |-> PInf, miny |-> PInf, minz |-> PInf,
             maxx |-> NInf, maxy |-> NInf, maxz |-> NInf]

\* the fold of Group::bounds keeping the box of the child in place of the sum
BoxAdd_last(a, b) == b

\* impl Add<BoundingBox> for BoundingBox
BoxAdd(a, b) == [minx |-> FMin(a.minx, b.minx), miny |-> FMin(a.miny, b.miny),
                 minz |-> FMin(a.minz, b.minz),
                 maxx |-> FMax(a.maxx, b.maxx), maxy |-> FMax(a.maxy, b.maxy),
                 maxz |-> FMax(a.maxz, b.maxz)]

\* BoundingBox::contains_point
contains_point(b, px, py, pz) ==
    /\ FGe(px, b.minx) /\ FLe(px, b.maxx)
    /\ FGe(py, b.miny) /\ FLe(py, b.maxy)
    /\ FGe(pz, b.minz) /\ FLe(pz, b.maxz)

\* BoundingBox::contains_box
contains_box(b, o) ==
    contains_point(b, o.minx, o.miny, o.minz) /\ contains_point(b, o.maxx, o.maxy, o.maxz)

\* the axis chosen with the ties resolved the other way round, z before y before x
SplitAxis_zyx(b) ==
    LET dx == FSub(b.maxx, b.minx)
        dy == FSub(b.maxy, b.miny)
        dz == FSub(b.maxz, b.minz)
        greatest == FMax(dx, FMax(dy, dz))
    IN  IF FEq(greatest, dz) THEN "z" ELSE IF FEq(greatest, dy) THEN "y" ELSE "x"

\* the axis BoundingBox::split bisects: the first of x, y, z whose extent equals the greatest
SplitAxis(b) ==
    LET dx == FSub(b.maxx, b.minx)
        dy == FSub(b.maxy, b.miny)
        dz == FSub(b.maxz, b.minz)
        greatest == FMax(dx, FMax(dy, dz))
    IN  IF FEq(greatest, dx) THEN "x" ELSE IF FEq(greatest, dy) THEN "y" ELSE "z"

\* BoundingBox::split
split(b) ==
    LET dx == FSub(b.maxx, b.minx)
        dy == FSub(b.maxy, b.miny)
        dz == FSub(b.maxz, b.minz)
        axis == SplitAxis(b)
        x0 == IF axis = "x" THEN FAdd(b.minx, FHalf(dx)) ELSE b.minx
        x1 == IF axis = "x" THEN x0 ELSE b.maxx
        y0 == IF axis = "y" THEN FAdd(b.miny, FHalf(dy)) ELSE b.miny
        y1 == IF axis = "y" THEN y0 ELSE b.maxy
        z0 == IF axis = "z" THEN FAdd(b.minz, FHalf(dz)) ELSE b.minz
        z1 == IF axis = "z" THEN z0 ELSE b.maxz
    IN  [left  |-> [minx |-> b.minx, miny |-> b.miny, minz |-> b.minz,
                    maxx |-> x1, maxy |-> y1, maxz |-> z1],
         right |-> [minx |-> x0, miny |-> y0, minz |-> z0,
                    maxx |-> b.maxx, maxy |-> b.maxy, maxz |-> b.maxz]]

\* BoundingBox::check_axis
check_axis(origin, direction, min, max) ==
    LET tmin_numerator == FSub(min, origin)
        tmax_numerator == FSub(max, origin)
        tmin == IF direction # 0 THEN FDiv(tmin_numerator, direction) ELSE MulInf(tmin_numerator)
        tmax == IF direction # 0 THEN FDiv(tmax_numerator, direction) ELSE MulInf(tmax_numerator)
    IN  IF FGt(tmin, tmax) THEN <<tmax, tmin>> ELSE <<tmin, tmax>>

\* BoundingBox::intersects
intersects(b, ray) ==
    LET x == check_axis(ray.ox, ray.dx, b.minx, b.maxx)
        y == check_axis(ray.oy, ray.dy, b.miny, b.maxy)
        z == check_axis(ray.oz, ray.dz, b.minz, b.maxz)
        tmin == FMax(x[1], FMax(y[1], z[1]))
        tmax == FMin(x[2], FMin(y[2], z[2]))
    IN  ~FGt(tmin, tmax)

\* the unit box of a primitive under translation(tx, 0, 0) * scaling(r, r, r), in half-units
PrimBox(shape) ==
    [minx |-> shape.tx - 2 * shape.r, miny |-> -2 * shape.r, minz |-> -2 * shape.r,
     maxx |-> shape.tx + 2 * shape.r, maxy |-> 2 * shape.r,  maxz |-> 2 * shape.r]

\* depth of nested calls the stack holds: more than any acyclic graph of MaxSlots shapes needs
StackFuel == MaxSlots + 2

\* Group::bounds, folding Shape::parent_space_bounds over the children; a group child
\* recurses into its own bounds.  st is "ok", "panic" (Arena::get on an empty or
\* unallocated slot) or "overflow" (the recursion never returns).
RECURSIVE Group_bounds(_, _, _, _)
Group_bounds(ids, objs, fuel, acc) ==
    IF ids = <<>> THEN [st |-> "ok", box |-> acc]
    ELSE LET fold(pb) ==
                 IF pb.st # "ok" THEN pb
                 ELSE Group_bounds(Tail(ids), objs, fuel, BoxAdd(acc, pb.box))
             child(c) ==
                 IF ~c.ok THEN [st |-> "panic", box |-> acc]
                 ELSE IF c.shape.kind = "prim" THEN fold([st |-> "ok", box |-> PrimBox(c.shape)])
                 ELSE IF fuel = 0 THEN [st |-> "overflow", box |-> acc]
                 ELSE fold(Group_bounds(c.shape.children_ids, objs, fuel - 1, EmptyBox))
         IN  child(Arena_get(objs, Head(ids)))

bounds(g, objs) == Group_bounds(g.children_ids, objs, StackFuel, EmptyBox)

----------------------------------------------------------------------------
(* Group::divide *)

Outcome(ok) == IF ok THEN "ok" ELSE "panic"

\* Group::remove_child: drops the first occurrence of child_id
RECURSIVE remove_child(_, _)
remove_child(ids, child_id) ==
    IF ids = <<>> THEN <<>>
    ELSE IF Head(ids) = child_id THEN Tail(ids)
    ELSE <<Head(ids)>> \o remove_child(Tail(ids), child_id)

\* Group::remove_children
RECURSIVE remove_children(_, _)
remove_children(ids, gone) ==
    IF gone = <<>> THEN ids ELSE remove_children(remove_child(ids, Head(gone)), Tail(gone))

\* the bounds partition_children takes of a child (Shape::parent_space_bounds)
ChildBounds(id, objs) ==
    LET c == Arena_get(objs, id).shape
    IN  IF c.kind = "prim" THEN PrimBox(c)
        ELSE Group_bounds(c.children_ids, objs, StackFuel, EmptyBox).box

\* the loop of partition_children: left if wholly in the left half, else right if wholly
\* in the right half, else neither
RECURSIVE PartitionLoop(_, _, _, _)
PartitionLoop(ids, objs, left, right) ==
    IF ids = <<>> THEN [left_ids |-> <<>>, right_ids |-> <<>>]
    ELSE LET place(child_bounds, rest) ==
                 IF contains_box(left, child_bounds)
                 THEN [left_ids |-> <<Head(ids)>> \o rest.left_ids, right_ids |-> rest.right_ids]
                 ELSE IF contains_box(right, child_bounds)
                 THEN [left_ids |-> rest.left_ids, right_ids |-> <<Head(ids)>> \o rest.right_ids]
                 ELSE rest
         IN  place(ChildBounds(Head(ids), objs), PartitionLoop(Tail(ids), objs, left, right))

\* Group::partition_children
partition_children(g, objs) ==
    LET removed(p) ==
            [st |-> "ok",
             g  |-> [g EXCEPT !.children_ids =
                        remove_children(remove_children(g.children_ids, p.left_ids),
                                        p.right_ids)],
             left |-> p.left_ids, right |-> p.right_ids]
        halved(halves) ==
            removed(PartitionLoop(g.children_ids, objs, halves.left, halves.right))
        bounded(b) ==
            IF b.st # "ok" THEN [st |-> b.st, g |-> g, left |-> <<>>, right |-> <<>>]
            ELSE halved(split(b.box))
    IN  bounded(bounds(g, objs))

\* make_subgroup leaving the new sub-group out of the parent's children
make_subgroup_orphan(g, children_ids, objs) ==
    LET moved(n, w) == [ok |-> w.ok, g |-> g, objs |-> w.objs, ids |-> {n.id}]
        filled(n, sub) ==
            IF ~sub.ok THEN [ok |-> FALSE, g |-> g, objs |-> sub.objs, ids |-> {n.id}]
            ELSE moved(n, Arena_add_with_id(sub.objs, n.id, ShapeGroup(sub.g)))
        reserved(n) == filled(n, Group_add_children(Group_new(n.id), children_ids, n.objs))
    IN  reserved(Arena_next_id(objs))

\* Group::make_subgroup
make_subgroup(g, children_ids, objs) ==
    LET added(n, c) == [ok |-> c.ok, g |-> c.g, objs |-> c.objs, ids |-> {n.id}]
        moved(n, w) ==
            IF ~w.ok THEN [ok |-> FALSE, g |-> g, objs |-> w.objs, ids |-> {n.id}]
            ELSE added(n, Group_add_child(g, n.id, w.objs))
        filled(n, sub) ==
            IF ~sub.ok THEN [ok |-> FALSE, g |-> g, objs |-> sub.objs, ids |-> {n.id}]
            ELSE moved(n, Arena_add_with_id(sub.objs, n.id, ShapeGroup(sub.g)))
        reserved(n) == filled(n, Group_add_children(Group_new(n.id), children_ids, n.objs))
    IN  reserved(Arena_next_id(objs))

\* Group::divide; ids are the ids its next_id calls returned
divide(g, threshold, objs) ==
    LET second(l, rr) ==
            [st |-> Outcome(rr.ok), g |-> rr.g, objs |-> rr.objs, ids |-> l.ids \cup rr.ids]
        first(p, l) ==
            IF ~l.ok THEN [st |-> "panic", g |-> l.g, objs |-> l.objs, ids |-> l.ids]
            ELSE second(l, IF p.right # <<>> THEN make_subgroup(l.g, p.right, l.objs)
                           ELSE [ok |-> TRUE, g |-> l.g, objs |-> l.objs, ids |-> {}])
        parted(p) ==
            IF p.st # "ok" THEN [st |-> p.st, g |-> g, objs |-> objs, ids |-> {}]
            ELSE first(p, IF p.left # <<>> THEN make_subgroup(p.g, p.left, objs)
                          ELSE [ok |-> TRUE, g |-> p.g, objs |-> objs, ids |-> {}])
    IN  IF threshold <= Len(g.children_ids) THEN parted(partition_children(g, objs))
        ELSE [st |-> "ok", g |-> g, objs |-> objs, ids |-> {}]

----------------------------------------------------------------------------
(* Intersections *)

\* Intersection::sort: ascending t, equal t keeping their order
RECURSIVE Insert(_, _)
Insert(sorted, i) ==
    IF sorted = <<>> THEN <<i>>
    ELSE IF i.t < Head(sorted).t THEN <<i>> \o sorted
    ELSE <<Head(sorted)>> \o Insert(Tail(sorted), i)

RECURSIVE sort(_)
sort(s) == IF s = <<>> THEN <<>> ELSE Insert(sort(SubSeq(s, 1, Len(s) - 1)), s[Len(s)])

\* Shape::intersect on a primitive (Cube::local_intersect on the ray mapped into local
\* space): the slab parameters of the unit cube, which on the local ray
\* ((o - tx) / r, d / r) are ((tx -/+ r) - o) / d, the slab parameters of PrimBox.
PrimIntersect(id, shape, ray) ==
    LET b == PrimBox(shape)
        x == check_axis(ray.ox, ray.dx, b.minx, b.maxx)
        y == check_axis(ray.oy, ray.dy, b.miny, b.maxy)
        z == check_axis(ray.oz, ray.dz, b.minz, b.maxz)
        tmin == FMax(x[1], FMax(y[1], z[1]))
        tmax == FMin(x[2], FMin(y[2], z[2]))
    IN  IF FGt(tmin, tmax) THEN <<>>
        ELSE << [t |-> tmin, object |-> id], [t |-> tmax, object |-> id] >>

\* Group::local_intersect on a group with these children_ids.  visited lists the
\* children whose intersect was called, in call order; box_hit is what the bounds test said.
RECURSIVE IntersectChildren(_, _, _, _)
RECURSIVE Group_local_intersect(_, _, _, _)

\* local_intersect without the bounds gate: the children are intersected on a miss too
Group_local_intersect_ungated(children_ids, objs, ray, fuel) ==
    LET sorted(r, box_hit) ==
            [st |-> r.st, box_hit |-> box_hit, visited |-> r.visited, xs |-> sort(r.xs)]
        gate(b) ==
            IF b.st # "ok" THEN [st |-> b.st, box_hit |-> FALSE, visited |-> <<>>, xs |-> <<>>]
            ELSE sorted(IntersectChildren(children_ids, objs, ray, fuel), intersects(b.box, ray))
    IN  gate(Group_bounds(children_ids, objs, fuel, EmptyBox))

Group_local_intersect(children_ids, objs, ray, fuel) ==
    LET sorted(r, box_hit) ==
            [st |-> r.st, box_hit |-> box_hit, visited |-> r.visited, xs |-> sort(r.xs)]
        gate(b) ==
            IF b.st # "ok" THEN [st |-> b.st, box_hit |-> FALSE, visited |-> <<>>, xs |-> <<>>]
            ELSE IF intersects(b.box, ray)
            THEN sorted(IntersectChildren(children_ids, objs, ray, fuel), TRUE)
            ELSE [st |-> "ok", box_hit |-> FALSE, visited |-> <<>>, xs |-> <<>>]
    IN  gate(Group_bounds(children_ids, objs, fuel, EmptyBox))

\* Matrix::is_invertible of a shape's transform: the determinant of
\* translation(tx, 0, 0) * scaling(r, r, r) is r * r * r; a group keeps the identity
is_invertible(shape) == shape.kind # "prim" \/ shape.r * shape.r * shape.r # 0

\* a group wrapping what its children return with as_intersections, as a primitive does
Shape_intersect_as_self(id, shape, objs, ray, fuel) ==
    IF ~is_invertible(shape) THEN [st |-> "panic", xs |-> <<>>]
    ELSE IF shape.kind = "prim" THEN [st |-> "ok", xs |-> PrimIntersect(id, shape, ray)]
    ELSE IF fuel = 0 THEN [st |-> "overflow", xs |-> <<>>]
    ELSE LET result(n) == [st |-> n.st,
                           xs |-> [k \in 1 .. Len(n.xs) |-> [t |-> n.xs[k].t, object |-> id]]]
         IN  result(Group_local_intersect(shape.children_ids, objs, ray, fuel - 1))

\* Shape::intersect on the shape in slot id; inverse().unwrap() panics on None
Shape_intersect(id, shape, objs, ray, fuel) ==
    IF ~is_invertible(shape) THEN [st |-> "panic", xs |-> <<>>]
    ELSE IF shape.kind = "prim" THEN [st |-> "ok", xs |-> PrimIntersect(id, shape, ray)]
    ELSE IF fuel = 0 THEN [st |-> "overflow", xs |-> <<>>]
    ELSE LET result(n) == [st |-> n.st, xs |-> n.xs]
         IN  result(Group_local_intersect(shape.children_ids, objs, ray, fuel - 1))

\* map in place of flat_map: only the first intersection of each child is kept
IntersectChildren_first_only(ids, objs, ray, fuel) ==
    LET first(list) == IF list = <<>> THEN <<>> ELSE <<Head(list)>>
        merge(own, rest) ==
            [st |-> rest.st, visited |-> <<Head(ids)>> \o rest.visited,
             xs |-> first(own.xs) \o rest.xs]
        then(own) ==
            IF own.st # "ok" THEN [st |-> own.st, visited |-> <<Head(ids)>>, xs |-> <<>>]
            ELSE merge(own, IntersectChildren(Tail(ids), objs, ray, fuel))
        child(c) ==
            IF ~c.ok THEN [st |-> "panic", visited |-> <<>>, xs |-> <<>>]
            ELSE then(Shape_intersect(Head(ids), c.shape, objs, ray, fuel))
    IN  IF ids = <<>> THEN [st |-> "ok", visited |-> <<>>, xs |-> <<>>]
        ELSE child(Arena_get(objs, Head(ids)))

\* arena.get(id).intersect(arena, ray) for each id in turn, the results concatenated
IntersectChildren(ids, objs, ray, fuel) ==
    LET merge(own, rest) ==
            [st |-> rest.st, visited |-> <<Head(ids)>> \o rest.visited, xs |-> own.xs \o rest.xs]
        then(own) ==
            IF own.st # "ok" THEN [st |-> own.st, visited |-> <<Head(ids)>>, xs |-> <<>>]
            ELSE merge(own, IntersectChildren(Tail(ids), objs, ray, fuel))
        child(c) ==
            IF ~c.ok THEN [st |-> "panic", visited |-> <<>>, xs |-> <<>>]
            ELSE then(Shape_intersect(Head(ids), c.shape, objs, ray, fuel))
    IN  IF ids = <<>> THEN [st |-> "ok", visited |-> <<>>, xs |-> <<>>]
        ELSE child(Arena_get(objs, Head(ids)))

local_intersect(g, objs, ray) == Group_local_intersect(g.children_ids, objs, ray, StackFuel)

----------------------------------------------------------------------------
(* Scene assembly: the calls on the arena and on the groups not yet in it *)

Primitives == { Prim(-4, 1), Prim(4, 1), Prim(0, 4) }

Rays == { [ox |-> 0,  oy |-> 0,  oz |-> -20, dx |-> 0, dy |-> 0, dz |-> 1],
          [ox |-> -6, oy |-> 0,  oz |-> -20, dx |-> 0, dy |-> 0, dz |-> 1],
          [ox |-> 20, oy |-> 0,  oz |-> -20, dx |-> 0, dy |-> 0, dz |-> 1],
          [ox |-> -20, oy |-> 0, oz |-> 0,   dx |-> 1, dy |-> 0, dz |-> 0] }

Thresholds == {1, 3}

NoRay   == [ox |-> 0, oy |-> 0, oz |-> 0, dx |-> 0, dy |-> 0, dz |-> 0]
NoProbe == [st |-> "none", children_ids |-> <<>>, ray |-> NoRay, box_hit |-> FALSE,
            visited |-> <<>>, xs |-> <<>>]

Call(op, id, outcome, applied, ret) ==
    [op |-> op, id |-> id, outcome |-> outcome, applied |-> applied, ret |-> ret]

NumPrims == Cardinality({ i \in 1 .. Len(objects) : objects[i].kind = "prim" })

NumGroups == Cardinality({ i \in 1 .. Len(objects) : objects[i].kind = "group" })

\* arena.add(shape) for a primitive
Add(shape) ==
    /\ Len(objects) < MaxSlots
    /\ NumPrims < MaxPrims
    /\ LET a == Arena_add(objects, shape)
       IN  /\ objects' = a.objs
           /\ last' = Call("add", NoId, "ok", FALSE, a.id)
           /\ issued' = issued \cup {a.id}
    /\ UNCHANGED <<locals, probe>>
    /\ UNCHANGED <<xsVars, traceVars, calcVars>>

\* arena.next_id()
NextId ==
    /\ Len(objects) < MaxSlots
    /\ LET a == Arena_next_id(objects)
       IN  /\ objects' = a.objs
           /\ last' = Call("next_id", NoId, "ok", FALSE, a.id)
           /\ issued' = issued \cup {a.id}
    /\ UNCHANGED <<locals, probe>>
    /\ UNCHANGED <<xsVars, traceVars, calcVars>>

\* arena.add_with_id(id, shape) for a primitive
AddWithId(id, shape) ==
    /\ NumPrims < MaxPrims
    /\ LET a == Arena_add_with_id(objects, id, shape)
       IN  /\ objects' = a.objs
           /\ last' = Call("add_with_id", id, Outcome(a.ok), FALSE, NoId)
    /\ UNCHANGED <<locals, issued, probe>>
    /\ UNCHANGED <<xsVars, traceVars, calcVars>>

\* arena.add_with_id(g.id, Shape::Group(g)): g is moved into the call
AddGroupWithId(g) ==
    /\ LET a == Arena_add_with_id(objects, g.id, ShapeGroup(g))
       IN  /\ objects' = a.objs
           /\ last' = Call("add_with_id", g.id, Outcome(a.ok), FALSE, NoId)
    /\ locals' = locals \ {g}
    /\ UNCHANGED <<issued, probe>>
    /\ UNCHANGED <<xsVars, traceVars, calcVars>>

\* arena.get(id)
Get(id) ==
    /\ last' = Call("get", id, Outcome(Arena_get(objects, id).ok), FALSE, NoId)
    /\ UNCHANGED <<objects, locals, issued, probe>>
    /\ UNCHANGED <<xsVars, traceVars, calcVars>>

\* arena.apply_changes(id, |s| s.set_material(..))
ApplyChanges(id, m) ==
    /\ LET a == Arena_apply_changes(objects, id, [field |-> "mat", value |-> m])
       IN  /\ objects' = a.objs
           /\ last' = Call("apply_changes", id, Outcome(a.ok), a.applied, NoId)
    /\ UNCHANGED <<locals, issued, probe>>
    /\ UNCHANGED <<xsVars, traceVars, calcVars>>

\* let id = arena.next_id(); ...; let g = Group::new(id): the id of a reserved, empty slot
NewGroup(id) ==
    /\ locals = {}
    /\ NumGroups < MaxGroups
    /\ Allocated(objects, id) /\ ~Filled(objects, id)
    /\ locals' = locals \cup {Group_new(id)}
    /\ last' = Call("new", id, "ok", FALSE, NoId)
    /\ UNCHANGED <<objects, issued, probe>>
    /\ UNCHANGED <<xsVars, traceVars, calcVars>>

\* g.add_child(child_id, arena)
AddChild(g, child_id) ==
    /\ Len(g.children_ids) < MaxKids
    /\ \E a \in { Group_add_child(g, child_id, objects) } :
           /\ objects' = a.objs
           /\ locals' = (locals \ {g}) \cup {a.g}
           /\ last' = Call("add_child", child_id, Outcome(a.ok), FALSE, g.id)
    /\ UNCHANGED <<issued, probe>>
    /\ UNCHANGED <<xsVars, traceVars, calcVars>>

\* g.add_children(&[c1, c2], arena)
AddChildren(g, c1, c2) ==
    /\ Len(g.children_ids) + 2 <= MaxKids
    /\ \E a \in { Group_add_children(g, <<c1, c2>>, objects) } :
           /\ objects' = a.objs
           /\ locals' = (locals \ {g}) \cup {a.g}
           /\ last' = Call("add_children", c1, Outcome(a.ok), FALSE, g.id)
    /\ UNCHANGED <<issued, probe>>
    /\ UNCHANGED <<xsVars, traceVars, calcVars>>

\* g.divide(threshold, arena)
Divide(g, threshold) ==
    /\ \E d \in { divide(g, threshold, objects) } :
           /\ Len(d.objs) <= MaxSlots
           /\ objects' = d.objs
           /\ locals' = (locals \ {g}) \cup {d.g}
           /\ last' = Call("divide", threshold, d.st, FALSE, g.id)
           /\ issued' = issued \cup d.ids
    /\ UNCHANGED probe
    /\ UNCHANGED <<xsVars, traceVars, calcVars>>

\* g.local_intersect(arena, ray)
LocalIntersect(g, ray) ==
    /\ \E x \in { local_intersect(g, objects, ray) } :
           probe' = [st |-> x.st, children_ids |-> g.children_ids, ray |-> ray,
                     box_hit |-> x.box_hit, visited |-> x.visited, xs |-> x.xs]
    /\ last' = Call("local_intersect", NoId, "ok", FALSE, g.id)
    /\ UNCHANGED <<objects, locals, issued>>
    /\ UNCHANGED <<xsVars, traceVars, calcVars>>

ArenaInit ==
    /\ objects = <<>>
    /\ locals = {}
    /\ last = Call("new", NoId, "ok", FALSE, NoId)
    /\ issued = {}
    /\ probe = NoProbe

NoHit   == -1
NoComps == [k |-> 0, n1 |-> 0, n2 |-> 0]

XsIdle    == xs = <<>> /\ hit_result = NoHit /\ comps = NoComps
TraceIdle == object_ids = <<>> /\ stack = <<>> /\ world_pc = "idle"

NoCalc   == [fn |-> "none"]
CalcIdle == calc = NoCalc

Init == ArenaInit /\ XsIdle /\ TraceIdle /\ CalcIdle

\* The arena on its own: every call, with valid and invalid ids
NextArena ==
    \/ \E shape \in Primitives : Add(shape)
    \/ NextId
    \/ \E id \in 0 .. MaxSlots, shape \in Primitives : AddWithId(id, shape)
    \/ \E id \in 0 .. MaxSlots : Get(id)
    \/ \E id \in 0 .. MaxSlots : ApplyChanges(id, 1)
    \/ \E id \in Ids : NewGroup(id)
    \/ \E g \in locals : AddGroupWithId(g)

SpecArena == Init /\ [][NextArena]_vars

\* no slot is reserved and still empty
NoPending == \A i \in 1 .. Len(objects) : objects[i].kind # "none"

\* no ray has been cast yet: shapes are assembled before rendering, not during it, and
\* a behaviour ends with the one ray it casts
Assembling == probe = NoProbe

\* Scene assembly: the arena calls that build a group tree, and the calls on groups.
\* A group's id is reserved, its children are added, the group is moved into the arena
\* (group.rs:107-111); one reservation is pending at a time.  Rays are cast at the
\* group under construction once assembly stops.
NextScene ==
    \/ Assembling /\ \E shape \in Primitives : Add(shape)
    \/ Assembling /\ NoPending /\ NextId
    \/ Assembling /\ \E id \in Ids : NewGroup(id)
    \/ Assembling /\ \E g \in locals : AddGroupWithId(g)
    \/ Assembling /\ \E g \in locals, child_id \in 0 .. MaxSlots : AddChild(g, child_id)
    \/ Assembling /\ \E g \in locals, c1, c2 \in Ids : AddChildren(g, c1, c2)
    \/ Assembling /\ \E g \in locals, threshold \in Thresholds : Divide(g, threshold)
    \/ Assembling /\ \E g \in locals, ray \in Rays : LocalIntersect(g, ray)

SpecScene == Init /\ [][NextScene]_vars

----------------------------------------------------------------------------
(* Group::divide on a group of primitives, assembled as in tests::divide *)

\* the primitives the divided group holds, by their extent on x (half-units):
\* [-8,-4], [-4,0], [2,6] and one spanning the centre, [-8,8]
DividePrims == { Prim(-6, 1), Prim(-2, 1), Prim(4, 1), Prim(0, 4) }

\* arena.add(p) for each p in turn
RECURSIVE AddAll(_, _)
AddAll(objs, prims) ==
    IF prims = <<>> THEN objs ELSE AddAll(Arena_add(objs, Head(prims)).objs, Tail(prims))

\* let id = arena.next_id(); let mut g = Group::new(id); arena.add(..) for each primitive;
\* g.add_children(&[..], &mut arena)
DivideScene(prims) ==
    LET built(n) ==
            Group_add_children(Group_new(n.id), [k \in 1 .. Len(prims) |-> n.id + k],
                               AddAll(n.objs, prims))
    IN  built(Arena_next_id(<<>>))

DivideScenes == { DivideScene(prims) :
                    prims \in UNION { [1 .. n -> DividePrims] : n \in 0 .. MaxDivideKids } }

DivideThresholds == 0 .. (MaxDivideKids + 1)

InitDivide ==
    /\ \E sc \in DivideScenes : objects = sc.objs /\ locals = {sc.g}
    /\ last = Call("new", NoId, "ok", FALSE, NoId)
    /\ issued = {}
    /\ probe = NoProbe
    /\ XsIdle /\ TraceIdle /\ CalcIdle

\* g.divide(threshold, arena), called once on the assembled group
DivideGroup(g, threshold) ==
    /\ last.op # "divide"
    /\ \E d \in { divide(g, threshold, objects) } :
           /\ objects' = d.objs
           /\ locals' = (locals \ {g}) \cup {d.g}
           /\ last' = Call("divide", threshold, d.st, FALSE, g.id)
           /\ issued' = issued \cup d.ids
    /\ UNCHANGED probe
    /\ UNCHANGED <<xsVars, traceVars, calcVars>>

NextDivide ==
    \E g \in locals, threshold \in DivideThresholds : DivideGroup(g, threshold)

SpecDivide == InitDivide /\ [][NextDivide]_vars

----------------------------------------------------------------------------
(* Functions of the geometry, each applied to one input *)

Corners == { 2 * k : k \in -MaxCorner .. MaxCorner }

\* one axis of a box: a finite interval, or one open towards either infinity (the
\* bounds of a plane, of an untruncated cylinder)
Intervals == { <<lo, hi>> \in (Corners \cup {NInf}) \X (Corners \cup {PInf}) : lo <= hi }

\* BoundingBox::new(min, max), and BoundingBox::empty()
Boxes == { [minx |-> x[1], miny |-> y[1], minz |-> z[1],
            maxx |-> x[2], maxy |-> y[2], maxz |-> z[2]] : x, y, z \in Intervals }
            \cup {EmptyBox}

\* Exact fractions <<numerator, denominator>>, denominator > 0, in lowest terms
RECURSIVE Gcd(_, _)
Gcd(a, b) == IF b = 0 THEN a ELSE Gcd(b, a % b)

Abs(a) == IF a < 0 THEN -a ELSE a

Rat(n, d) ==
    LET lowest(g) == <<n \div g, d \div g>>
    IN  IF n = 0 THEN <<0, 1>> ELSE lowest(Gcd(Abs(n), d))

RAdd(a, b) == Rat(a[1] * b[2] + b[1] * a[2], a[2] * b[2])
RSub(a, b) == Rat(a[1] * b[2] - b[1] * a[2], a[2] * b[2])
RMul(a, b) == Rat(a[1] * b[1], a[2] * b[2])
RGt(a, b)  == a[1] * b[2] > b[1] * a[2]

\* x.powi(k)
RECURSIVE RPowi(_, _)
RPowi(x, k) == IF k = 0 THEN <<1, 1>> ELSE RMul(x, RPowi(x, k - 1))

\* n / d in f64 for integers n and d: a fraction, or <<1, 0>> for +inf, <<-1, 0>> for
\* -inf and <<0, 0>> for NaN when d is 0 (taken as +0)
Sign(n) == IF n > 0 THEN 1 ELSE IF n < 0 THEN -1 ELSE 0

EDiv(n, d) == IF d = 0 THEN <<Sign(n), 0>> ELSE IF d < 0 THEN Rat(-n, -d) ELSE Rat(n, d)

ENaN == <<0, 0>>

\* a < b in f64: false when either is NaN
ELt(a, b) == a # ENaN /\ b # ENaN /\ a[1] * b[2] < b[1] * a[2]

\* Cube::check_axis: the slab from -1 to 1
Cube_check_axis(origin, direction) ==
    LET tmin_numerator == FSub(-1, origin)
        tmax_numerator == FSub(1, origin)
        tmin == IF direction # 0 THEN FDiv(tmin_numerator, direction) ELSE MulInf(tmin_numerator)
        tmax == IF direction # 0 THEN FDiv(tmax_numerator, direction) ELSE MulInf(tmax_numerator)
    IN  IF FGt(tmin, tmax) THEN <<tmax, tmin>> ELSE <<tmin, tmax>>

\* Cone::new() and Cone::new_with_min_max_closed(-1., 1., true)
Cones == { [minimum |-> <<-1, 0>>, maximum |-> <<1, 0>>, closed |-> FALSE],
           [minimum |-> <<-1, 1>>, maximum |-> <<1, 1>>, closed |-> TRUE] }

\* a, b and c of Cone::local_intersect
ConeA(r) == r.dx * r.dx - r.dy * r.dy + r.dz * r.dz
ConeB(r) == 2 * r.ox * r.dx - 2 * r.oy * r.dy + 2 * r.oz * r.dz
ConeC(r) == r.ox * r.ox - r.oy * r.oy + r.oz * r.oz

ConeDiscriminant(r) == ConeB(r) * ConeB(r) - 4 * ConeA(r) * ConeC(r)

IsSquare(n) == \E k \in 0 .. n : k * k = n
ISqrt(n)    == CHOOSE k \in 0 .. n : k * k = n

\* Cone::check_cap
Cone_check_cap(r, t, radius) ==
    LET x == RAdd(Rat(r.ox, 1), RMul(t, Rat(r.dx, 1)))
        z == RAdd(Rat(r.oz, 1), RMul(t, Rat(r.dz, 1)))
    IN  ~RGt(RAdd(RMul(x, x), RMul(z, z)), RMul(radius, radius))

\* Cone::intersect_caps: the ts it pushes
Cone_intersect_caps(cone, r) ==
    IF ~cone.closed \/ r.dy = 0 THEN <<>>
    ELSE LET cap(radius) ==
                 IF Cone_check_cap(r, EDiv(radius[1] - r.oy * radius[2], r.dy * radius[2]), radius)
                 THEN << EDiv(radius[1] - r.oy * radius[2], r.dy * radius[2]) >>
                 ELSE <<>>
         IN  cap(cone.minimum) \o cap(cone.maximum)

\* Cone::local_intersect
Cone_local_intersect(cone, r) ==
    LET y(t) == RAdd(Rat(r.oy, 1), RMul(t, Rat(r.dy, 1)))
        within(t) == IF ELt(cone.minimum, y(t)) /\ ELt(y(t), cone.maximum) THEN <<t>> ELSE <<>>
        roots(t0, t1) == IF RGt(t0, t1) THEN within(t1) \o within(t0)
                         ELSE within(t0) \o within(t1)
        sides == IF ConeA(r) # 0
                 THEN IF ConeDiscriminant(r) >= 0
                      THEN roots(EDiv(-ConeB(r) - ISqrt(ConeDiscriminant(r)), 2 * ConeA(r)),
                                 EDiv(-ConeB(r) + ISqrt(ConeDiscriminant(r)), 2 * ConeA(r)))
                      ELSE <<>>
                 ELSE << EDiv(-ConeC(r), ConeB(r) * 2) >>
    IN  sides \o Cone_intersect_caps(cone, r)

Units == {-1, 0, 1}

\* rays with a finite origin and a direction that is not the zero vector, those for
\* which the roots of the cone's quadratic are fractions
ConeRays ==
    { r \in [ox : Units, oy : Units, oz : Units, dx : Units, dy : Units, dz : Units] :
         /\ <<r.dx, r.dy, r.dz>> # <<0, 0, 0>>
         /\ ConeA(r) = 0 \/ ConeDiscriminant(r) < 0 \/ IsSquare(ConeDiscriminant(r)) }

GeometryInputs ==
    { [fn |-> "input", of |-> "split", box |-> b] : b \in Boxes }
       \cup { [fn |-> "input", of |-> "check_axis", origin |-> o, direction |-> d,
               min |-> i[1], max |-> i[2]] : o \in Corners, d \in Units, i \in Intervals }
       \cup { [fn |-> "input", of |-> "cube_check_axis", origin |-> o, direction |-> d] :
                  o \in -2 .. 2, d \in Units }
       \cup { [fn |-> "input", of |-> "cone", cone |-> c, ray |-> r] : c \in Cones, r \in ConeRays }

InitGeometry ==
    /\ ArenaInit /\ XsIdle /\ TraceIdle
    /\ calc \in GeometryInputs

\* let (left, right) = box.split();
Split ==
    /\ calc.fn = "input" /\ calc.of = "split"
    /\ \E halves \in { split(calc.box) } :
           calc' = [fn |-> "split", box |-> calc.box,
                    left |-> halves.left, right |-> halves.right]
    /\ UNCHANGED <<arenaVars, xsVars, traceVars>>

\* BoundingBox::check_axis(origin, direction, min, max)
CheckAxis ==
    /\ calc.fn = "input" /\ calc.of = "check_axis"
    /\ \E t \in { check_axis(calc.origin, calc.direction, calc.min, calc.max) } :
           calc' = [fn |-> "check_axis", origin |-> calc.origin, direction |-> calc.direction,
                    min |-> calc.min, max |-> calc.max, tmin |-> t[1], tmax |-> t[2]]
    /\ UNCHANGED <<arenaVars, xsVars, traceVars>>

\* Cube::check_axis(origin, direction)
CubeCheckAxis ==
    /\ calc.fn = "input" /\ calc.of = "cube_check_axis"
    /\ \E t \in { Cube_check_axis(calc.origin, calc.direction) } :
           calc' = [fn |-> "cube_check_axis", origin |-> calc.origin,
                    direction |-> calc.direction, tmin |-> t[1], tmax |-> t[2]]
    /\ UNCHANGED <<arenaVars, xsVars, traceVars>>

\* cone.local_intersect(&ray)
ConeLocalIntersect ==
    /\ calc.fn = "input" /\ calc.of = "cone"
    /\ calc' = [fn |-> "cone", cone |-> calc.cone, ray |-> calc.ray,
                xs |-> Cone_local_intersect(calc.cone, calc.ray)]
    /\ UNCHANGED <<arenaVars, xsVars, traceVars>>

NextGeometry ==
    \/ Split
    \/ CheckAxis
    \/ CubeCheckAxis
    \/ ConeLocalIntersect

SpecGeometry == InitGeometry /\ [][NextGeometry]_vars

----------------------------------------------------------------------------
(* Intersection::hit and the n1/n2 walk of prepare_computations *)

\* The shapes intersections refer to.  A, B, C are the three glass spheres of
\* finding_n1_and_n2 (refractive indices in tenths); D is a second sphere built with
\* the transform and material of A.
ShapeVal == [ A |-> [transform |-> "scaling(2,2,2)",         refractive_index |-> 15],
              B |-> [transform |-> "translation(0,0,-0.25)", refractive_index |-> 20],
              C |-> [transform |-> "translation(0,0,0.25)",  refractive_index |-> 25],
              D |-> [transform |-> "scaling(2,2,2)",         refractive_index |-> 15] ]

Shapes == DOMAIN ShapeVal

\* #[derive(PartialEq)] on Shape / Sphere: shapes are equal when their fields are
ShapeEq(a, b) == ShapeVal[a] = ShapeVal[b]

\* #[derive(PartialEq)] on Intersection: equal t and equal object
IntersectionEq(i, j) == FEq(i.t, j.t) /\ ShapeEq(i.object, j.object)

\* Intersection::hit; the result is the position in xs of the intersection returned,
\* 0 for None
RECURSIVE HitLoop(_, _, _, _)
HitLoop(list, i, min, response) ==
    IF i > Len(list) THEN response
    ELSE IF FGe(list[i].t, 0) /\ FLt(list[i].t, min)
         THEN HitLoop(list, i + 1, list[i].t, i)
         ELSE HitLoop(list, i + 1, min, response)

hit(list) == HitLoop(list, 1, F64_MAX, 0)

\* containers.last().unwrap().material().refractive_index, 1.0 for an empty list
TopIndex(containers) ==
    IF containers = <<>> THEN 10 ELSE ShapeVal[containers[Len(containers)]].refractive_index

\* containers.iter().position(|&o| o == object), 0 for None
Position(containers, object) ==
    IF \E n \in 1 .. Len(containers) : ShapeEq(containers[n], object)
    THEN CHOOSE n \in 1 .. Len(containers) :
            /\ ShapeEq(containers[n], object)
            /\ \A m \in 1 .. (n - 1) : ~ShapeEq(containers[m], object)
    ELSE 0

\* Vec::remove(pos)
RemoveAt(list, pos) == SubSeq(list, 1, pos - 1) \o SubSeq(list, pos + 1, Len(list))

\* the match in the loop of prepare_computations: remove the shape if found, else push it
Toggle(containers, object) ==
    LET pos == Position(containers, object)
    IN  IF pos # 0 THEN RemoveAt(containers, pos) ELSE Append(containers, object)

\* the container list of prepare_computations after its loop has handled `prefix`
RECURSIVE Containers(_)
Containers(prefix) ==
    IF prefix = <<>> THEN <<>>
    ELSE Toggle(Containers(SubSeq(prefix, 1, Len(prefix) - 1)), prefix[Len(prefix)].object)

\* the position at which the loop breaks: the first i of the list with self == *i
StopsAt(self, list) ==
    IF \E i \in 1 .. Len(list) : IntersectionEq(self, list[i])
    THEN CHOOSE i \in 1 .. Len(list) :
            /\ IntersectionEq(self, list[i])
            /\ \A j \in 1 .. (i - 1) : ~IntersectionEq(self, list[j])
    ELSE 0

\* the loop of prepare_computations that computes n1 and n2
RECURSIVE Walk(_, _, _, _, _)
Walk(self, list, i, containers, n1) ==
    IF i > Len(list) THEN [n1 |-> n1, n2 |-> 10]
    ELSE LET after == Toggle(containers, list[i].object)
         IN  IF IntersectionEq(self, list[i])
             THEN [n1 |-> TopIndex(containers), n2 |-> TopIndex(after)]
             ELSE Walk(self, list, i + 1, after, n1)

\* Intersection::prepare_computations, its n1 and n2
prepare_computations(self, list) == Walk(self, list, 1, <<>>, 10)

Ts == (-MaxT .. MaxT) \cup {F64_MAX}

Intersections == [t : Ts, object : Shapes]

\* the six hits of finding_n1_and_n2 (t = 2, 2.75, 3.25, 4.75, 5.25, 6 by rank)
Example6 == << [t |-> 1, object |-> "A"], [t |-> 2, object |-> "B"], [t |-> 3, object |-> "C"],
               [t |-> 4, object |-> "B"], [t |-> 5, object |-> "C"], [t |-> 6, object |-> "A"] >>

XsInputs == UNION { [1 .. n -> Intersections] : n \in 0 .. MaxXs } \cup {Example6}

Ascending(list) == \A i \in 1 .. (Len(list) - 1) : list[i].t <= list[i + 1].t

XsInit == xs \in XsInputs /\ hit_result = NoHit /\ comps = NoComps

\* Intersection::hit(&xs)
Hit ==
    /\ hit_result' = hit(xs)
    /\ UNCHANGED <<xs, comps>>
    /\ UNCHANGED <<arenaVars, traceVars, calcVars>>

\* xs[k].prepare_computations(&r, &xs), xs sorted ascending
PrepareComputations(k) ==
    /\ Ascending(xs)
    /\ LET c == prepare_computations(xs[k], xs)
       IN  comps' = [k |-> k, n1 |-> c.n1, n2 |-> c.n2]
    /\ UNCHANGED <<xs, hit_result>>
    /\ UNCHANGED <<arenaVars, traceVars, calcVars>>

\* xs.iter().find(|i| i.t >= 0.): the position of the first such intersection, 0 for None
find(list) ==
    IF \E i \in 1 .. Len(list) : FGe(list[i].t, 0)
    THEN CHOOSE i \in 1 .. Len(list) :
            /\ FGe(list[i].t, 0)
            /\ \A j \in 1 .. (i - 1) : ~FGe(list[j].t, 0)
    ELSE 0

\* the match of color_at_internal on xs, the sorted list World::intersect returned:
\* the intersection it hands to shade_hit, or 0 when it returns BLACK
ColorAtInternalFind ==
    /\ Ascending(xs)
    /\ calc' = [fn |-> "find", at |-> find(xs)]
    /\ UNCHANGED <<arenaVars, xsVars, traceVars>>

NextXs ==
    \/ Hit
    \/ ColorAtInternalFind
    \/ \E k \in 1 .. Len(xs) : PrepareComputations(k)

InitXs == ArenaInit /\ XsInit /\ TraceIdle /\ CalcIdle

SpecXs == InitXs /\ [][NextXs]_vars

----------------------------------------------------------------------------
(* World::new and World::color_at: the recursion of color_at_internal, one action per *)
(* call and return.  The ray of every call and the material found at every hit are    *)
(* chosen freely; what the ray hits is computed from the scene.                       *)

\* World::add_object
World_add_object(w, object) ==
    LET a == Arena_add(w.arena, object)
    IN  [arena |-> a.objs, object_ids |-> Append(w.object_ids, a.id)]

\* World::new(light, arena, objects)
RECURSIVE World_new(_, _)
World_new(arena, objs) ==
    IF objs = <<>> THEN [arena |-> arena, object_ids |-> <<>>]
    ELSE World_add_object(World_new(arena, SubSeq(objs, 1, Len(objs) - 1)), objs[Len(objs)])

\* World::intersect: arena.get(id).intersect(arena, r) for every object id, then sort
World_intersect(objs, ids, r) ==
    LET sorted(x) == [st |-> x.st, xs |-> sort(x.xs)]
    IN  sorted(IntersectChildren(ids, objs, r, StackFuel))

\* xs.iter().find(|i| i.t >= 0.) finds an intersection
Finds(list) == \E i \in 1 .. Len(list) : FGe(list[i].t, 0)

\* Two facing reflective surfaces, handed to World::new with an empty arena
SceneMirrors == World_new(<<>>, << Prim(-4, 1), Prim(4, 1) >>)

\* A group holding one primitive:
\*   let c = arena.add(p); let id = arena.next_id(); let mut g = Group::new(id);
\*   g.add_child(c, &mut arena); World::new(light, arena, vec![Shape::Group(g)])
SceneGroup ==
    LET c  == Arena_add(<<>>, Prim(0, 4))
        n  == Arena_next_id(c.objs)
        g  == Group_add_child(Group_new(n.id), c.id, n.objs)
    IN  World_new(g.objs, << ShapeGroup(g.g) >>)

\* A group that lists itself, inside the group handed to the world:
\*   let id = arena.next_id(); let mut g = Group::new(id); g.add_child(id, &mut arena);
\*   arena.add_with_id(id, Shape::Group(g));
\*   let id2 = arena.next_id(); let mut g2 = Group::new(id2); g2.add_child(id, &mut arena);
\*   World::new(light, arena, vec![Shape::Group(g2)])
SceneSelfChild ==
    LET n  == Arena_next_id(<<>>)
        g  == Group_add_child(Group_new(n.id), n.id, n.objs)
        a  == Arena_add_with_id(g.objs, n.id, ShapeGroup(g.g))
        n2 == Arena_next_id(a.objs)
        g2 == Group_add_child(Group_new(n2.id), n.id, n2.objs)
    IN  World_new(g2.objs, << ShapeGroup(g2.g) >>)

Scenes == { SceneMirrors, SceneGroup, SceneSelfChild }

\* a color_at_internal activation: its `remaining`, where it stands, and the material of
\* the hit (reflective / transparency: 0 for == 0.0, 1 for any other value)
Frame(remaining) == [remaining |-> remaining, pc |-> "intersect",
                     reflective |-> 0, transparency |-> 0]

Top == stack[Len(stack)]

SetTop(f) == [stack EXCEPT ![Len(stack)] = f]

\* the nested call handed the caller's own budget
NestedRemaining_same(remaining) == remaining

\* the `remaining - 1` handed to the nested color_at_internal call
NestedRemaining(remaining) == remaining - 1

\* reflected_color without its test of remaining
ReflectTraces_unbounded(f) == ~(f.reflective = 0)

\* reflected_color goes on to trace: neither of its two early returns is taken
ReflectTraces(f) == ~(f.remaining <= 0) /\ ~(f.reflective = 0)

\* refracted_color goes on to trace: none of its three early returns is taken
\* (tir: sin2_t > 1)
RefractTraces(f, tir) == ~(f.remaining <= 0) /\ ~(f.transparency = 0) /\ ~tir

\* a nested call: the caller moves on to `next`, the callee starts; a call the stack
\* cannot hold ends the program
CallNested(next) ==
    IF Len(stack) < StackLimit
    THEN /\ stack' = Append(SetTop([Top EXCEPT !.pc = next]), Frame(NestedRemaining(Top.remaining)))
         /\ UNCHANGED world_pc
    ELSE /\ world_pc' = "overflow"
         /\ UNCHANGED stack

\* the top activation returns its color
Return ==
    /\ stack' = SubSeq(stack, 1, Len(stack) - 1)
    /\ world_pc' = IF Len(stack) = 1 THEN "done" ELSE world_pc

\* World::color_at(r)
ColorAt ==
    /\ world_pc \in {"idle", "done"}
    /\ stack' = << Frame(MAX_REFLECTION_RECURSION) >>
    /\ world_pc' = "tracing"
    /\ UNCHANGED <<arenaVars, xsVars, object_ids, calcVars>>

\* color_at_internal: self.intersect(&r) does not return; Arena::get panicked, or
\* Group::bounds / Group::local_intersect recursed until the stack was exhausted
IntersectFails(r) ==
    /\ world_pc = "tracing" /\ Top.pc = "intersect"
    /\ LET fails(x) == x.st # "ok" /\ world_pc' = x.st
       IN  fails(World_intersect(objects, object_ids, r))
    /\ UNCHANGED stack
    /\ UNCHANGED <<arenaVars, xsVars, object_ids, calcVars>>

\* color_at_internal: no intersection with t >= 0, BLACK is returned
Miss(r) ==
    /\ world_pc = "tracing" /\ Top.pc = "intersect"
    /\ LET misses(x) == x.st = "ok" /\ ~Finds(x.xs)
       IN  misses(World_intersect(objects, object_ids, r))
    /\ Return
    /\ UNCHANGED <<arenaVars, xsVars, object_ids, calcVars>>

\* color_at_internal: a hit; prepare_computations, then shade_hit starts
ShadeHit(r, reflective, transparency) ==
    /\ world_pc = "tracing" /\ Top.pc = "intersect"
    /\ LET hits(x) == x.st = "ok" /\ Finds(x.xs)
       IN  hits(World_intersect(objects, object_ids, r))
    /\ stack' = SetTop([Top EXCEPT !.pc = "reflect", !.reflective = reflective,
                                    !.transparency = transparency])
    /\ UNCHANGED world_pc
    /\ UNCHANGED <<arenaVars, xsVars, object_ids, calcVars>>

\* shade_hit: self.reflected_color(comps, remaining)
ReflectedColor ==
    /\ world_pc = "tracing" /\ Top.pc = "reflect"
    /\ IF ReflectTraces(Top)
       THEN CallNested("refract")
       ELSE stack' = SetTop([Top EXCEPT !.pc = "refract"]) /\ UNCHANGED world_pc
    /\ UNCHANGED <<arenaVars, xsVars, object_ids, calcVars>>

\* shade_hit: self.refracted_color(comps, remaining)
RefractedColor(tir) ==
    /\ world_pc = "tracing" /\ Top.pc = "refract"
    /\ IF RefractTraces(Top, tir)
       THEN CallNested("combine")
       ELSE stack' = SetTop([Top EXCEPT !.pc = "combine"]) /\ UNCHANGED world_pc
    /\ UNCHANGED <<arenaVars, xsVars, object_ids, calcVars>>

\* shade_hit writing a material into every shape of the arena before it returns
Combine_writes_material ==
    /\ world_pc = "tracing" /\ Top.pc = "combine"
    /\ Return
    /\ objects' = [i \in 1 .. Len(objects) |-> [objects[i] EXCEPT !.mat = 1 - @]]
    /\ UNCHANGED <<locals, last, issued, probe>>
    /\ UNCHANGED <<xsVars, object_ids, calcVars>>

\* shade_hit combines surface, reflected and refracted and returns
Combine ==
    /\ world_pc = "tracing" /\ Top.pc = "combine"
    /\ Return
    /\ UNCHANGED <<arenaVars, xsVars, object_ids, calcVars>>

\* the matrices handed to set_transform: scaling(0, 0, 0), which has no inverse, and
\* scaling(2, 2, 2)
Transforms == { [tx |-> 0, r |-> 0], [tx |-> 0, r |-> 2] }

\* w.apply_changes_by_index(.., |s| s.set_transform(m)) on a primitive, while the
\* scene is assembled
SetTransform(id, m) ==
    /\ world_pc = "idle"
    /\ Filled(objects, id) /\ Slot(objects, id).kind = "prim"
    /\ \E a \in { Arena_apply_changes(objects, id, [field |-> "transform", value |-> m]) } :
           /\ objects' = a.objs
           /\ last' = Call("set_transform", id, Outcome(a.ok), a.applied, m.r)
    /\ UNCHANGED <<locals, issued, probe>>
    /\ UNCHANGED <<xsVars, traceVars, calcVars>>

TraceInit ==
    /\ \E w \in Scenes : objects = w.arena /\ object_ids = w.object_ids
    /\ locals = {}
    /\ last = Call("new", NoId, "ok", FALSE, NoId)
    /\ issued = {}
    /\ probe = NoProbe
    /\ stack = <<>> /\ world_pc = "idle"

NextTrace ==
    \/ \E id \in 0 .. (Len(objects) - 1), m \in Transforms : SetTransform(id, m)
    \/ ColorAt
    \/ \E r \in Rays : IntersectFails(r)
    \/ \E r \in Rays : Miss(r)
    \/ \E r \in Rays, reflective, transparency \in {0, 1} : ShadeHit(r, reflective, transparency)
    \/ ReflectedColor
    \/ \E tir \in BOOLEAN : RefractedColor(tir)
    \/ Combine

InitTrace == TraceInit /\ XsIdle /\ CalcIdle

SpecTrace == InitTrace /\ [][NextTrace]_vars

----------------------------------------------------------------------------
(* shade_hit, reflected_color, refracted_color and schlick on one prepared hit *)

BLACK == <<0, 1>>
ROne  == <<1, 1>>

\* (n_ratio * n_ratio) * (1. - (cos * cos)), n_ratio = n1 / n2
Sin2T(n1, n2, cos) ==
    RMul(RMul(Rat(n1, n2), Rat(n1, n2)), RSub(ROne, RMul(cos, cos)))

\* x.sqrt() where the root is rational, <<-1, 1>> where it is not
RSqrt(x) ==
    IF \E a \in 0 .. x[1], b \in 1 .. x[2] : a * a = x[1] /\ b * b = x[2]
    THEN LET a == CHOOSE a \in 0 .. x[1] : a * a = x[1]
             b == CHOOSE b \in 1 .. x[2] : b * b = x[2]
         IN  Rat(a, b)
    ELSE <<-1, 1>>

\* refracted_color's test: sin2_t > 1.
Sin2TCutoff(n1, n2, cos) == RGt(Sin2T(n1, n2, cos), ROne)

\* schlick's early return taken from sin2_t = 1 on
SchlickEarlyReturn_at_one(n1, n2, cos) == n1 > n2 /\ ~RGt(ROne, Sin2T(n1, n2, cos))

\* schlick's test: n1 > n2, and then sin2_t > 1.
SchlickEarlyReturn(n1, n2, cos) == n1 > n2 /\ RGt(Sin2T(n1, n2, cos), ROne)

\* schlick with the test for total internal reflection left out
schlick_no_tir(n1, n2, cos) ==
    LET r0 == RPowi(Rat(n1 - n2, n1 + n2), 2)
        cos_t == IF n1 > n2 THEN RSqrt(RSub(ROne, Sin2T(n1, n2, cos))) ELSE cos
    IN  RAdd(r0, RMul(RSub(ROne, r0), RPowi(RSub(ROne, cos_t), 5)))

\* PreparedComputations::schlick; n1 and n2 in halves, cos = dot(eyev, normalv)
schlick(n1, n2, cos) ==
    LET r0 == RPowi(Rat(n1 - n2, n1 + n2), 2)
        tir == SchlickEarlyReturn(n1, n2, cos)
        cos_t == IF n1 > n2 THEN RSqrt(RSub(ROne, Sin2T(n1, n2, cos))) ELSE cos
    IN  IF tir THEN ROne
        ELSE RAdd(r0, RMul(RSub(ROne, r0), RPowi(RSub(ROne, cos_t), 5)))

\* refractive indices 1.0, 1.5, 2.0, 2.5 in halves
Indices == {2, 3, 4, 5}

\* dot(eyev, normalv) of a prepared hit: 0, 0.6, 0.8, 1
Cosines == { Rat(0, 5), Rat(3, 5), Rat(4, 5), Rat(5, 5) }

\* the (n1, n2, cos) whose cos(theta_t) is a fraction
Optics ==
    { o \in [n1 : Indices, n2 : Indices, cos : Cosines] :
         \/ o.n1 <= o.n2
         \/ RGt(Sin2T(o.n1, o.n2, o.cos), ROne)
         \/ RSqrt(RSub(ROne, Sin2T(o.n1, o.n2, o.cos))) # <<-1, 1>> }

\* four of them: total internal reflection, sin2_t = 1, a perpendicular view into a
\* denser medium, and n1 = n2 at 0.6
ShadeOptics == { [n1 |-> 5, n2 |-> 2, cos |-> Rat(0, 5)], [n1 |-> 5, n2 |-> 4, cos |-> Rat(3, 5)],
                 [n1 |-> 2, n2 |-> 3, cos |-> Rat(5, 5)], [n1 |-> 3, n2 |-> 3, cos |-> Rat(3, 5)] }

\* material.reflective and material.transparency: 0, 0.5, 1
Factors == { Rat(0, 2), Rat(1, 2), Rat(2, 2) }

\* what a nested color_at_internal call returns
NestedColors == { Rat(c, 1) : c \in 0 .. MaxColor }

ShadeInputs ==
    { [fn |-> "shade_hit", pc |-> "reflect", remaining |-> remaining,
       reflective |-> reflective, transparency |-> transparency,
       n1 |-> o.n1, n2 |-> o.n2, cos |-> o.cos, surface |-> ROne, calls |-> <<>>,
       reflected |-> BLACK, refracted |-> BLACK, consulted |-> FALSE, color |-> BLACK] :
       remaining \in 0 .. MAX_REFLECTION_RECURSION, reflective \in Factors,
       transparency \in Factors, o \in ShadeOptics }

SchlickInputs == { [fn |-> "input", of |-> "schlick", n1 |-> o.n1, n2 |-> o.n2, cos |-> o.cos] :
                     o \in Optics }

\* refractive indices n1 in halves, one of them below zero: Material takes any f64
TirIndices == {-4, 2, 3, 4, 5}

\* the prepared computations the two tests are compared on
TirInputs ==
    { [fn |-> "input", of |-> "tir", remaining |-> remaining, transparency |-> transparency,
       n1 |-> n1, n2 |-> n2, cos |-> cos] :
       remaining \in {0, 1}, transparency \in Factors,
       n1 \in TirIndices, n2 \in Indices, cos \in Cosines \cup { Rat(-3, 5) } }

InitShade ==
    /\ ArenaInit /\ XsIdle /\ TraceIdle
    /\ calc \in ShadeInputs \cup SchlickInputs \cup TirInputs

\* a frame of the call stack with the fields of calc the early returns read
AsFrame(c) == [remaining |-> c.remaining, pc |-> c.pc,
               reflective |-> c.reflective[1], transparency |-> c.transparency[1]]

\* World::reflected_color(comps, remaining), called by shade_hit
ShadeReflected ==
    /\ calc.fn = "shade_hit" /\ calc.pc = "reflect"
    /\ IF ReflectTraces(AsFrame(calc))
       THEN \E color \in NestedColors :
               calc' = [calc EXCEPT
                          !.calls = Append(@, [remaining |-> NestedRemaining(calc.remaining),
                                               origin |-> "over_point", direction |-> "reflectv",
                                               returned |-> color]),
                          !.reflected = RMul(color, calc.reflective),
                          !.pc = "refract"]
       ELSE calc' = [calc EXCEPT !.reflected = BLACK, !.pc = "refract"]
    /\ UNCHANGED <<arenaVars, xsVars, traceVars>>

\* World::refracted_color(comps, remaining), called by shade_hit
ShadeRefracted ==
    /\ calc.fn = "shade_hit" /\ calc.pc = "refract"
    /\ IF RefractTraces(AsFrame(calc), Sin2TCutoff(calc.n1, calc.n2, calc.cos))
       THEN \E color \in NestedColors :
               calc' = [calc EXCEPT
                          !.calls = Append(@, [remaining |-> NestedRemaining(calc.remaining),
                                               origin |-> "under_point", direction |-> "refracted",
                                               returned |-> color]),
                          !.refracted = RMul(color, calc.transparency),
                          !.pc = "combine"]
       ELSE calc' = [calc EXCEPT !.refracted = BLACK, !.pc = "combine"]
    /\ UNCHANGED <<arenaVars, xsVars, traceVars>>

\* the final if of shade_hit with the Schlick rule applied to every material
Combined_always_schlick(surface, reflected, refracted, reflective, transparency, n1, n2, cos) ==
    LET weighted(reflectance) ==
            RAdd(RAdd(surface, RMul(reflected, reflectance)),
                 RMul(refracted, RSub(ROne, reflectance)))
    IN  [color |-> weighted(schlick(n1, n2, cos)), consulted |-> TRUE]

\* the final if of shade_hit: the color returned, and whether comps.schlick() was called
Combined(surface, reflected, refracted, reflective, transparency, n1, n2, cos) ==
    LET weighted(reflectance) ==
            RAdd(RAdd(surface, RMul(reflected, reflectance)),
                 RMul(refracted, RSub(ROne, reflectance)))
    IN  IF RGt(reflective, BLACK) /\ RGt(transparency, BLACK)
        THEN [color |-> weighted(schlick(n1, n2, cos)), consulted |-> TRUE]
        ELSE [color |-> RAdd(RAdd(surface, reflected), refracted), consulted |-> FALSE]

\* shade_hit: the final if, and the return
ShadeCombine ==
    /\ calc.fn = "shade_hit" /\ calc.pc = "combine"
    /\ \E sum \in { Combined(calc.surface, calc.reflected, calc.refracted, calc.reflective,
                              calc.transparency, calc.n1, calc.n2, calc.cos) } :
           calc' = [calc EXCEPT !.consulted = sum.consulted, !.color = sum.color, !.pc = "done"]
    /\ UNCHANGED <<arenaVars, xsVars, traceVars>>

\* comps.schlick()
Schlick ==
    /\ calc.fn = "input" /\ calc.of = "schlick"
    /\ calc' = [fn |-> "schlick", n1 |-> calc.n1, n2 |-> calc.n2, cos |-> calc.cos,
                reflectance |-> schlick(calc.n1, calc.n2, calc.cos)]
    /\ UNCHANGED <<arenaVars, xsVars, traceVars>>

\* refracted_color and schlick on the same prepared computations: whether refracted_color
\* returns at its sin2_t test, and whether schlick takes its early return
TotalReflection ==
    /\ calc.fn = "input" /\ calc.of = "tir"
    /\ LET f == [remaining |-> calc.remaining, transparency |-> calc.transparency[1]]
       IN  calc' = [fn |-> "tir", remaining |-> calc.remaining,
                    transparency |-> calc.transparency,
                    n1 |-> calc.n1, n2 |-> calc.n2, cos |-> calc.cos,
                    cutoff |-> /\ RefractTraces(f, FALSE)
                               /\ ~RefractTraces(f, Sin2TCutoff(calc.n1, calc.n2, calc.cos)),
                    early  |-> SchlickEarlyReturn(calc.n1, calc.n2, calc.cos)]
    /\ UNCHANGED <<arenaVars, xsVars, traceVars>>

NextShade ==
    \/ TotalReflection
    \/ ShadeReflected
    \/ ShadeRefracted
    \/ ShadeCombine
    \/ Schlick

SpecShade == InitShade /\ [][NextShade]_vars

(***************************************************************************)
(* Camera::render: the rows of the image are evaluated by the workers of   *)
(* a parallel iterator, the rows are collected into one list of            *)
(* (x, y, color) triples, and one thread then writes the list to a fresh   *)
(* canvas.                                                                 *)
(***************************************************************************)

\* Camera::color_at for pixel (x, y): the world is only read while it is traced, so
\* the color is a function of the pixel's ray; every pixel gets a color of its own here
Camera_color_at(hsize, x, y) == y * hsize + x + 1

\* the triples of row y computed so far, after the closure's map has produced n of them
RowPrefix(hsize, y, n) ==
    [i \in 1 .. n |-> [x |-> i - 1, y |-> y, color |-> Camera_color_at(hsize, i - 1, y)]]

\* flat_map(..).collect::<Vec<_>>(): the rows joined in the order of the row indices
RECURSIVE Collect(_, _)
Collect(rows, y) ==
    IF y \notin DOMAIN rows THEN <<>> ELSE rows[y] \o Collect(rows, y + 1)

Canvas_new(width, height) ==
    [y \in 0 .. height - 1 |-> [x \in 0 .. width - 1 |-> 0]]

Canvas_write_pixel_row0(image, x, y, color) ==
    [image EXCEPT ![0][x] = color]

Canvas_write_pixel(image, x, y, color) ==
    [image EXCEPT ![y][x] = color]

RenderInputs ==
    { [fn |-> "render", pc |-> "rows", hsize |-> h, vsize |-> v,
       rows |-> [y \in 0 .. v - 1 |-> <<>>], finished |-> <<>>,
       pixels |-> <<>>, next |-> 1, writes |-> <<>>,
       image |-> Canvas_new(h, v)] : h \in 1 .. MaxHsize, v \in 1 .. MaxVsize }

InitRender ==
    /\ ArenaInit /\ XsIdle /\ TraceIdle
    /\ calc \in RenderInputs

\* a worker evaluates the next pixel of row y; the rows advance in any interleaving
RenderRow(y) ==
    /\ calc.fn = "render" /\ calc.pc = "rows"
    /\ y \in DOMAIN calc.rows
    /\ Len(calc.rows[y]) < calc.hsize
    /\ \E row \in { RowPrefix(calc.hsize, y, Len(calc.rows[y]) + 1) } :
         calc' = [calc EXCEPT !.rows[y] = row,
                              !.finished = IF Len(row) = calc.hsize
                                           THEN Append(@, y) ELSE @]
    /\ UNCHANGED <<arenaVars, xsVars, traceVars>>

\* every row has been evaluated: collect() hands the rows over as one list
RenderCollect ==
    /\ calc.fn = "render" /\ calc.pc = "rows"
    /\ \A y \in DOMAIN calc.rows : Len(calc.rows[y]) = calc.hsize
    /\ calc' = [calc EXCEPT !.pc = "write", !.pixels = Collect(calc.rows, 0)]
    /\ UNCHANGED <<arenaVars, xsVars, traceVars>>

\* pixels.iter().for_each(write_pixel): one triple after the other on one thread
RenderWrite ==
    /\ calc.fn = "render" /\ calc.pc = "write"
    /\ calc.next <= Len(calc.pixels)
    /\ \E p \in { calc.pixels[calc.next] } :
         calc' = [calc EXCEPT !.image = Canvas_write_pixel(@, p.x, p.y, p.color),
                              !.writes = Append(@, <<p.x, p.y>>),
                              !.next = @ + 1]
    /\ UNCHANGED <<arenaVars, xsVars, traceVars>>

\* render returns the canvas
RenderReturn ==
    /\ calc.fn = "render" /\ calc.pc = "write"
    /\ calc.next > Len(calc.pixels)
    /\ calc' = [calc EXCEPT !.pc = "done"]
    /\ UNCHANGED <<arenaVars, xsVars, traceVars>>

NextRender ==
    \/ \E y \in 0 .. MaxVsize - 1 : RenderRow(y)
    \/ RenderCollect
    \/ RenderWrite
    \/ RenderReturn

SpecRender == InitRender /\ [][NextRender]_vars

(***************************************************************************)
(* The calls of color_at_internal that one World::color_at makes, counted. *)
(* What a ray hits is left open: every call may miss, fail, or hit a       *)
(* material that is reflective or not, transparent or not.                 *)
(***************************************************************************)

\* a color_at_internal activation and the number of nested calls it has made
CountedFrame(remaining) ==
    [remaining |-> remaining, pc |-> "intersect", reflective |-> 0, transparency |-> 0,
     nested |-> 0]

InitCalls ==
    /\ ArenaInit /\ XsIdle /\ TraceIdle
    /\ calc = [fn |-> "color_at", pc |-> "idle", stack |-> <<>>, calls |-> 0]

CountedTop == calc.stack[Len(calc.stack)]

CountedSetTop(f) == [calc.stack EXCEPT ![Len(calc.stack)] = f]

Counting == calc.fn = "color_at" /\ calc.pc = "tracing"

\* World::color_at(r): the first call of color_at_internal
CountedColorAt ==
    /\ calc.fn = "color_at" /\ calc.pc = "idle"
    /\ calc' = [calc EXCEPT !.pc = "tracing",
                            !.stack = << CountedFrame(MAX_REFLECTION_RECURSION) >>,
                            !.calls = 1]
    /\ UNCHANGED <<arenaVars, xsVars, traceVars>>

\* the nested call of reflected_color or refracted_color; the caller goes on at `next`
CountedCall(next) ==
    IF Len(calc.stack) < StackLimit
    THEN calc' = [calc EXCEPT
                    !.stack = Append(CountedSetTop([CountedTop EXCEPT !.pc = next,
                                                                      !.nested = @ + 1]),
                                     CountedFrame(NestedRemaining(CountedTop.remaining))),
                    !.calls = @ + 1]
    ELSE calc' = [calc EXCEPT !.pc = "overflow"]

\* the top activation returns
CountedReturn ==
    calc' = [calc EXCEPT !.stack = SubSeq(@, 1, Len(@) - 1),
                         !.pc = IF Len(calc.stack) = 1 THEN "done" ELSE @]

\* color_at_internal: self.intersect(&r) panics
CountedFails ==
    /\ Counting /\ CountedTop.pc = "intersect"
    /\ calc' = [calc EXCEPT !.pc = "panic"]
    /\ UNCHANGED <<arenaVars, xsVars, traceVars>>

\* color_at_internal: no intersection with t >= 0
CountedMiss ==
    /\ Counting /\ CountedTop.pc = "intersect"
    /\ CountedReturn
    /\ UNCHANGED <<arenaVars, xsVars, traceVars>>

\* color_at_internal: a hit, shade_hit starts
CountedShadeHit(reflective, transparency) ==
    /\ Counting /\ CountedTop.pc = "intersect"
    /\ calc' = [calc EXCEPT !.stack = CountedSetTop([CountedTop EXCEPT
                                         !.pc = "reflect", !.reflective = reflective,
                                         !.transparency = transparency])]
    /\ UNCHANGED <<arenaVars, xsVars, traceVars>>

\* shade_hit: self.reflected_color(comps, remaining)
CountedReflected ==
    /\ Counting /\ CountedTop.pc = "reflect"
    /\ IF ReflectTraces(CountedTop)
       THEN CountedCall("refract")
       ELSE calc' = [calc EXCEPT !.stack = CountedSetTop([CountedTop EXCEPT !.pc = "refract"])]
    /\ UNCHANGED <<arenaVars, xsVars, traceVars>>

\* shade_hit: self.refracted_color(comps, remaining)
CountedRefracted(tir) ==
    /\ Counting /\ CountedTop.pc = "refract"
    /\ IF RefractTraces(CountedTop, tir)
       THEN CountedCall("combine")
       ELSE calc' = [calc EXCEPT !.stack = CountedSetTop([CountedTop EXCEPT !.pc = "combine"])]
    /\ UNCHANGED <<arenaVars, xsVars, traceVars>>

\* shade_hit returns
CountedCombine ==
    /\ Counting /\ CountedTop.pc = "combine"
    /\ CountedReturn
    /\ UNCHANGED <<arenaVars, xsVars, traceVars>>

NextCalls ==
    \/ CountedColorAt
    \/ CountedFails
    \/ CountedMiss
    \/ \E reflective, transparency \in {0, 1} : CountedShadeHit(reflective, transparency)
    \/ CountedReflected
    \/ \E tir \in BOOLEAN : CountedRefracted(tir)
    \/ CountedCombine

SpecCalls == InitCalls /\ [][NextCalls]_vars

----------------------------------------------------------------------------
(* Properties of the arena *)

\* C7: add_with_id(id, shape) panics exactly when id was never allocated or slot id is
\* already filled, and then changes no slot; otherwise it fills slot id and only slot id.
C7_AddWithIdFailsFast ==
    [][ last'.op = "add_with_id" =>
          LET id == last'.id
              bad == ~Allocated(objects, id) \/ Filled(objects, id)
          IN  /\ (last'.outcome = "panic") <=> bad
              /\ bad => objects' = objects
              /\ ~bad => /\ Len(objects') = Len(objects)
                         /\ Filled(objects', id)
                         /\ \A j \in 0 .. (Len(objects) - 1) :
                               j # id => Slot(objects', j) = Slot(objects, j) ]_vars

\* a second add_with_id on a filled slot has just panicked
C7_Witness ==
    /\ last.op = "add_with_id" /\ last.outcome = "panic"
    /\ Filled(objects, last.id)

\* C8: get and apply_changes on an id that holds no shape (never allocated, or reserved
\* and still empty) fail; apply_changes never returns normally without applying f.
C8_MissingShapeFailsFast ==
    /\ (last.op \in {"get", "apply_changes"} /\ ~Filled(objects, last.id))
          => last.outcome = "panic"
    /\ (last.op = "apply_changes" /\ last.outcome = "ok") => last.applied

\* C9: add and next_id return the current slot count, an id never returned before; no
\* call removes or re-assigns a slot, and a filled slot keeps its shape (kind, own id
\* and transform), whatever apply_changes does to it.
C9_IdsStable ==
    [][ /\ last'.op \in {"add", "next_id"} =>
              /\ last'.ret = Len(objects)
              /\ last'.ret \notin issued
              /\ Len(objects') = Len(objects) + 1
        /\ Len(objects') >= Len(objects)
        /\ \A id \in 0 .. (Len(objects) - 1) :
              Filled(objects, id) =>
                 /\ Filled(objects', id)
                 /\ Slot(objects', id).kind = Slot(objects, id).kind
                 /\ Slot(objects', id).gid  = Slot(objects, id).gid
                 /\ Slot(objects', id).tx   = Slot(objects, id).tx
                 /\ Slot(objects', id).r    = Slot(objects, id).r ]_vars

\* several ids handed out, and a stored shape has been mutated in place
C9_Witness ==
    /\ Cardinality(issued) >= 3
    /\ last.op = "apply_changes" /\ last.applied
    /\ Slot(objects, last.id).mat = 1

----------------------------------------------------------------------------
(* Properties of groups *)

\* the groups there are: those in the arena (by slot) and the one under construction (0)
GroupLists ==
    { <<i, objects[i].children_ids>> : i \in { j \in 1 .. Len(objects) : objects[j].kind = "group" } }
      \cup { <<0, g.children_ids>> : g \in locals }

\* C4: a ray that misses the group's bounding box yields no intersections and no child's
\* intersect is called; a ray that hits it has intersect called on every child, in order.
C4_BoundsGate ==
    probe.st = "ok" =>
       LET b == Group_bounds(probe.children_ids, objects, StackFuel, EmptyBox).box
       IN  IF intersects(b, probe.ray)
           THEN probe.visited = probe.children_ids
           ELSE probe.visited = <<>> /\ probe.xs = <<>>

\* a ray has missed the box of a group that has children
C4_Witness ==
    /\ probe.st = "ok" /\ ~probe.box_hit
    /\ Len(probe.children_ids) = 2
    /\ probe.visited = <<>>

\* C5: every shape id is listed by at most one group.
C5_OneOwner ==
    \A a, b \in GroupLists :
       a[1] # b[1] => ~ \E id \in 0 .. MaxSlots : Contains(a[2], id) /\ Contains(b[2], id)

\* the ids reachable from id by following children_ids / parent_id, in at most n steps
RECURSIVE Descendants(_, _)
Descendants(from, n) ==
    IF n = 0 THEN {}
    ELSE LET kids == UNION { { Slot(objects, id).children_ids[k] :
                                 k \in 1 .. Len(Slot(objects, id).children_ids) } :
                             id \in { f \in from : Filled(objects, f) } }
         IN  kids \cup Descendants(kids, n - 1)

RECURSIVE Ancestors(_, _)
Ancestors(from, n) ==
    IF n = 0 THEN {}
    ELSE LET ups == { Slot(objects, id).parent_id : id \in { f \in from : Filled(objects, f) } }
                       \ {NoId}
         IN  ups \cup Ancestors(ups, n - 1)

\* C6: no shape of the arena is its own ancestor, by parent_id links or by children_ids.
C6_NoCycles ==
    \A id \in 0 .. (Len(objects) - 1) :
       /\ id \notin Descendants({id}, Len(objects))
       /\ id \notin Ancestors({id}, Len(objects))

\* C10: add_child panics on a child already in the group's list, leaving group and arena
\* as they were; any other child (of an allocated id) is appended to the list and gets
\* the group's id as parent_id.
C10_AddChild ==
    [][ (last'.op = "add_child" /\ Allocated(objects, last'.id)) =>
          \A g \in locals :
             LET child_id == last'.id
             IN  IF Contains(g.children_ids, child_id)
                 THEN last'.outcome = "panic" /\ objects' = objects /\ locals' = locals
                 ELSE /\ last'.outcome = "ok"
                      /\ locals' = { [g EXCEPT !.children_ids = Append(g.children_ids, child_id)] }
                      /\ Filled(objects', child_id)
                      /\ Slot(objects', child_id).parent_id = g.id ]_vars

----------------------------------------------------------------------------
(* Properties of hit and prepare_computations *)

NonNegative(list) == { i \in 1 .. Len(list) : list[i].t >= 0 }

\* C2: hit returns the intersection with the smallest t among those with t >= 0, the
\* first of them in xs when several share it, and None exactly when no t is >= 0.
C2_HitSmallestNonNegative ==
    hit_result # NoHit =>
       IF NonNegative(xs) = {} THEN hit_result = 0
       ELSE /\ hit_result \in NonNegative(xs)
            /\ \A i \in NonNegative(xs) :
                  \/ xs[hit_result].t < xs[i].t
                  \/ xs[hit_result].t = xs[i].t /\ hit_result <= i

\* toggling one shape on a list of shapes: removed if that shape is on it, else pushed
ToggleShape(containers, object) ==
    IF \E n \in 1 .. Len(containers) : containers[n] = object
    THEN SelectSeq(containers, LAMBDA o : o # object)
    ELSE Append(containers, object)

\* the container list after the intersections of `prefix`, toggled one by one
RECURSIVE Inside(_)
Inside(prefix) ==
    IF prefix = <<>> THEN <<>>
    ELSE ToggleShape(Inside(SubSeq(prefix, 1, Len(prefix) - 1)), prefix[Len(prefix)].object)

ExamplePairs == << <<10, 15>>, <<15, 20>>, <<20, 25>>, <<25, 25>>, <<25, 15>>, <<15, 10>> >>

\* C3: for the intersection x at position k of an ascending list, n1 is the index of the
\* last shape of the container list built from the intersections before x (1.0 if
\* empty), n2 that of the list after x's shape is toggled (1.0 if empty); the six hits
\* of the example give the six documented pairs.
C3_N1N2 ==
    comps.k # 0 =>
       LET before == Inside(SubSeq(xs, 1, comps.k - 1))
       IN  /\ comps.n1 = TopIndex(before)
           /\ comps.n2 = TopIndex(ToggleShape(before, xs[comps.k].object))
           /\ xs = Example6 => <<comps.n1, comps.n2>> = ExamplePairs[comps.k]

\* C28: the container list tracks shapes by identity.  When the intersection at
\* position k of xs is prepared, the walk stops at position k and at no earlier
\* intersection, and each step up to there removes from the list the very shape of the
\* intersection if it is on the list and pushes it otherwise.
C28_ContainersByIdentity ==
    comps.k # 0 =>
       /\ StopsAt(xs[comps.k], xs) = comps.k
       /\ \A i \in 1 .. comps.k :
             LET containers == Containers(SubSeq(xs, 1, i - 1))
             IN  Toggle(containers, xs[i].object) = ToggleShape(containers, xs[i].object)

----------------------------------------------------------------------------
(* Properties of the recursion *)

\* C1: color_at terminates for every scene and every ray.  The first call has
\* remaining = MAX_REFLECTION_RECURSION, every nested call gets one less than its caller
\* and is made only by a caller with remaining > 0, and no call of color_at ends with
\* the stack exhausted.
C1_Terminates ==
    /\ world_pc # "overflow"
    /\ \A i \in 1 .. Len(stack) :
          /\ stack[i].remaining = MAX_REFLECTION_RECURSION - (i - 1)
          /\ stack[i].remaining >= 0

----------------------------------------------------------------------------
(* Properties of Group::divide *)

\* the group a child id names, as a Group value
GroupOf(id, objs) == [id |-> Slot(objs, id).gid, children_ids |-> Slot(objs, id).children_ids]

\* the primitives among ids
PrimsOf(ids, objs) == { ids[k] : k \in { j \in 1 .. Len(ids) : Slot(objs, ids[j]).kind = "prim" } }

\* C11: divide(threshold) is applied to every child group of the divided group, the
\* sub-groups it has just created included: once divide has returned, no child group
\* with at least threshold children still holds a primitive that lies wholly in one
\* half of that child group's bounds (divide would have moved it into a sub-group).
C11_DivideRecurses ==
    (last.op = "divide" /\ last.outcome = "ok") =>
       \A g \in locals : \A k \in 1 .. Len(g.children_ids) :
          LET c == Slot(objects, g.children_ids[k])
              movable(p) == PrimsOf(p.left, objects) \cup PrimsOf(p.right, objects)
          IN  (c.kind = "group" /\ last.id <= Len(c.children_ids)) =>
                 movable(partition_children(GroupOf(g.children_ids[k], objects), objects)) = {}

\* the two halves of a group's bounds
Halves(g, objs) == split(bounds(g, objs).box)

InLeft(g, objs, c)  == contains_box(Halves(g, objs).left, ChildBounds(c, objs))
InRight(g, objs, c) == ~InLeft(g, objs, c) /\ contains_box(Halves(g, objs).right, ChildBounds(c, objs))

LeftList(g, objs)   == SelectSeq(g.children_ids, LAMBDA c : InLeft(g, objs, c))
RightList(g, objs)  == SelectSeq(g.children_ids, LAMBDA c : InRight(g, objs, c))
Straddlers(g, objs) ==
    SelectSeq(g.children_ids, LAMBDA c : ~InLeft(g, objs, c) /\ ~InRight(g, objs, c))

\* the ids of the sub-groups a list pair gives rise to: one fresh slot per non-empty list
SubIds(l, r, objs) ==
    (IF l # <<>> THEN <<Len(objs)>> ELSE <<>>)
       \o (IF r # <<>> THEN <<Len(objs) + (IF l # <<>> THEN 1 ELSE 0)>> ELSE <<>>)

\* two clustered on the left and one spanning the centre, as in tests::divide
ClusteredScene == DivideScene(<<Prim(-6, 1), Prim(-2, 1), Prim(0, 4)>>)

\* C12: divide(threshold) on a group with at least threshold children leaves the
\* straddling children in the group, in order, followed by one new sub-group per
\* non-empty list; the left sub-group holds, in order, the children wholly in the left
\* half and the right one the others wholly in the right half; every shape that was in
\* the arena is still there, only the parent of a moved child has changed.  With fewer
\* than threshold children nothing changes.  Two clustered children and one spanning
\* the centre give the spanning child followed by one sub-group of the two.
C12_DividePartitions ==
    [][last'.op = "divide" =>
          \A g \in locals :
             LET l == LeftList(g, objects)
                 r == RightList(g, objects)
                 subs == SubIds(l, r, objects)
             IN  IF Len(g.children_ids) < last'.id
                 THEN locals' = locals /\ objects' = objects
                 ELSE /\ last'.outcome = "ok"
                      /\ locals' = {[g EXCEPT !.children_ids = Straddlers(g, objects) \o subs]}
                      /\ Len(objects') = Len(objects) + Len(subs)
                      /\ \A i \in 1 .. Len(objects) :
                            [objects'[i] EXCEPT !.parent_id = NoId]
                               = [objects[i] EXCEPT !.parent_id = NoId]
                      /\ l # <<>> =>
                            /\ Slot(objects', subs[1]).kind = "group"
                            /\ Slot(objects', subs[1]).children_ids = l
                      /\ r # <<>> =>
                            /\ Slot(objects', subs[Len(subs)]).kind = "group"
                            /\ Slot(objects', subs[Len(subs)]).children_ids = r
                      /\ (objects = ClusteredScene.objs) =>
                            /\ locals' = {[g EXCEPT !.children_ids = <<3, 4>>]}
                            /\ Slot(objects', 4).children_ids = <<1, 2>>
                            /\ Len(objects') = 5
    ]_vars

\* divide has split three children into the spanning one and a sub-group of the other two
C12_Witness ==
    /\ last.op = "divide"
    /\ Len(objects) = 5
    /\ \E g \in locals : g.children_ids = <<3, 4>>
    /\ Slot(objects, 3).kind = "prim"
    /\ Slot(objects, 4).kind = "group"
    /\ Slot(objects, 4).children_ids = <<1, 2>>

----------------------------------------------------------------------------
(* Properties of the functions of the geometry *)

FiniteBox(b) ==
    \A v \in {b.minx, b.miny, b.minz, b.maxx, b.maxy, b.maxz} : v # PInf /\ v # NInf /\ v # NaN

\* the axis of greatest extent, x before y before z
GreatestAxis(b) ==
    IF b.maxx - b.minx >= b.maxy - b.miny /\ b.maxx - b.minx >= b.maxz - b.minz THEN "x"
    ELSE IF b.maxy - b.miny >= b.maxz - b.minz THEN "y"
    ELSE "z"

Lo(b, axis) == IF axis = "x" THEN b.minx ELSE IF axis = "y" THEN b.miny ELSE b.minz
Hi(b, axis) == IF axis = "x" THEN b.maxx ELSE IF axis = "y" THEN b.maxy ELSE b.maxz

----------------------------------------------------------------------------
(* Properties of color_at_internal *)

\* C14: the intersection color_at_internal shades is the one with the smallest t among
\* those with t >= 0 of the sorted list, negative ones before it ignored, and it is the
\* one Intersection::hit returns for that list; it returns black exactly when no
\* intersection has t >= 0, which is when hit returns None.
C14_ShadesTheHit ==
    calc.fn = "find" =>
       /\ calc.at = hit(xs)
       /\ calc.at = 0 <=> NonNegative(xs) = {}
       /\ calc.at # 0 =>
             /\ calc.at \in NonNegative(xs)
             /\ \A i \in NonNegative(xs) : xs[calc.at].t <= xs[i].t /\ calc.at <= i

----------------------------------------------------------------------------
(* Properties of shade_hit and schlick *)

LastCall(c) == c.calls[Len(c.calls)]

\* C15: reflected_color returns black and makes no color_at_internal call when
\* remaining is 0 or the material's reflective is 0; otherwise it makes exactly one
\* call, with remaining - 1, from over_point along reflectv, and returns that call's
\* color times reflective.
C15_ReflectedColor ==
    [][(calc.fn = "shade_hit" /\ calc.pc = "reflect") =>
          IF calc.remaining = 0 \/ calc.reflective = BLACK
          THEN calc'.reflected = BLACK /\ calc'.calls = calc.calls
          ELSE /\ Len(calc'.calls) = Len(calc.calls) + 1
               /\ SubSeq(calc'.calls, 1, Len(calc.calls)) = calc.calls
               /\ LastCall(calc').remaining = calc.remaining - 1
               /\ LastCall(calc').origin = "over_point"
               /\ LastCall(calc').direction = "reflectv"
               /\ calc'.reflected = RMul(LastCall(calc').returned, calc.reflective)
    ]_vars

\* reflected_color has traced a ray and halved a non-black color
C15_Witness ==
    /\ calc.fn = "shade_hit" /\ calc.pc = "refract"
    /\ calc.reflective = Rat(1, 2)
    /\ Len(calc.calls) = 1
    /\ calc.calls[1].origin = "over_point"
    /\ calc.calls[1].returned = Rat(2, 1)
    /\ calc.reflected = ROne

\* C16: refracted_color returns black and makes no color_at_internal call when
\* remaining is 0 or the material's transparency is 0; when it makes a call it makes
\* exactly one, with remaining - 1, from under_point, and returns that call's color
\* times transparency.
C16_RefractedColor ==
    [][(calc.fn = "shade_hit" /\ calc.pc = "refract") =>
          /\ (calc.remaining = 0 \/ calc.transparency = BLACK) =>
                calc'.refracted = BLACK /\ calc'.calls = calc.calls
          /\ calc'.calls # calc.calls =>
                /\ Len(calc'.calls) = Len(calc.calls) + 1
                /\ SubSeq(calc'.calls, 1, Len(calc.calls)) = calc.calls
                /\ LastCall(calc').remaining = calc.remaining - 1
                /\ LastCall(calc').origin = "under_point"
                /\ calc'.refracted = RMul(LastCall(calc').returned, calc.transparency)
    ]_vars

\* refracted_color has traced a ray from under_point and halved a non-black color
C16_Witness ==
    /\ calc.fn = "shade_hit" /\ calc.pc = "combine"
    /\ calc.transparency = Rat(1, 2)
    /\ calc.calls # <<>>
    /\ LastCall(calc).origin = "under_point"
    /\ LastCall(calc).returned = Rat(2, 1)
    /\ calc.refracted = ROne

C18_ShadeHitCombines ==
    [][(calc.fn = "shade_hit" /\ calc.pc = "combine") =>
          IF calc.reflective[1] > 0 /\ calc.transparency[1] > 0
          THEN /\ calc'.consulted
               /\ calc'.color =
                     RAdd(RAdd(calc.surface,
                               RMul(calc.reflected, schlick(calc.n1, calc.n2, calc.cos))),
                          RMul(calc.refracted,
                               RSub(ROne, schlick(calc.n1, calc.n2, calc.cos))))
          ELSE /\ ~calc'.consulted
               /\ calc'.color = RAdd(RAdd(calc.surface, calc.reflected), calc.refracted)
    ]_vars

\* shade_hit has weighted a non-black reflected and a non-black refracted color of a
\* material that is both reflective and transparent, and the result is not their plain sum
C18_Witness ==
    /\ calc.fn = "shade_hit" /\ calc.pc = "done"
    /\ calc.reflective = Rat(1, 2) /\ calc.transparency = Rat(1, 2)
    /\ calc.reflected # BLACK /\ calc.refracted # BLACK
    /\ calc.consulted
    /\ calc.color # RAdd(RAdd(calc.surface, calc.reflected), calc.refracted)

\* C19: for a ray with finite origin and direction no NaN comes out of the slab tests or
\* of the cone: BoundingBox::check_axis and Cube::check_axis return finite or infinite
\* values, also for a zero direction component and an origin on a slab plane, and
\* Cone::local_intersect returns no NaN when a is zero, also when b is zero.
C19_NoNaN ==
    /\ calc.fn \in {"check_axis", "cube_check_axis"} => ~IsNaN(calc.tmin) /\ ~IsNaN(calc.tmax)
    /\ (calc.fn = "cone" /\ ConeA(calc.ray) = 0) =>
          \A i \in 1 .. Len(calc.xs) : calc.xs[i] # ENaN

----------------------------------------------------------------------------
(* Properties of transforms *)

\* C20: a transform that cannot be inverted is refused when the scene is built:
\* set_transform with such a matrix fails, and once a ray is traced no primitive of the
\* arena has a transform without an inverse.
C20_SingularTransformRejected ==
    /\ (last.op = "set_transform" /\ last.ret = 0) => last.outcome # "ok"
    /\ world_pc # "idle" => \A i \in 1 .. Len(objects) : is_invertible(objects[i])

----------------------------------------------------------------------------
(* Properties of a World::color_at call as a whole *)

RECURSIVE WritesTo(_, _, _)
WritesTo(writes, x, y) ==
    IF writes = <<>> THEN 0
    ELSE (IF Head(writes) = <<x, y>> THEN 1 ELSE 0) + WritesTo(Tail(writes), x, y)

\* C22: whatever the interleaving of the row workers, the canvas render returns has
\* every pixel (x, y), 0 <= x < hsize, 0 <= y < vsize, written exactly once and holding
\* the color computed for that pixel's own ray.
C22_RenderDeterministic ==
    (calc.fn = "render" /\ calc.pc = "done") =>
        \A y \in 0 .. calc.vsize - 1 : \A x \in 0 .. calc.hsize - 1 :
            /\ WritesTo(calc.writes, x, y) = 1
            /\ calc.image[y][x] = Camera_color_at(calc.hsize, x, y)

\* render has returned a canvas of several rows whose workers finished in another order
\* than the order of the rows
C22_Witness ==
    /\ calc.fn = "render" /\ calc.pc = "done"
    /\ calc.hsize > 1
    /\ Len(calc.finished) > 1
    /\ calc.finished[1] > calc.finished[2]

(* Properties of the links between groups and their children *)
\* C23: every shape whose parent_id is Some(p) has slot p filled with a group whose own
\* id is p and whose children_ids lists the shape, so that get_parent (Arena::get on p)
\* succeeds and returns the owning group.
C23_ParentResolves ==
    \A id \in 0 .. (Len(objects) - 1) :
       (Filled(objects, id) /\ Slot(objects, id).parent_id # NoId) =>
          LET p == Slot(objects, id).parent_id
          IN  /\ Arena_get(objects, p).ok
              /\ Slot(objects, p).kind = "group"
              /\ Slot(objects, p).gid = p
              /\ Contains(Slot(objects, p).children_ids, id)

(* Properties of the merged intersection lists *)
\* how often e occurs in list
Count(list, e) == Cardinality({ i \in 1 .. Len(list) : list[i] = e })

\* the two lists hold the same intersections, each as often as the other
SameIntersections(a, b) ==
    /\ Len(a) = Len(b)
    /\ \A i \in 1 .. Len(a) : Count(a, a[i]) = Count(b, a[i])

\* what intersect returns for each of these shapes on its own, one after the other
RECURSIVE EachChild(_, _)
EachChild(ids, ray) ==
    IF ids = <<>> THEN <<>>
    ELSE Shape_intersect(Head(ids), Slot(objects, Head(ids)), objects, ray, StackFuel).xs
            \o EachChild(Tail(ids), ray)

\* C24: on a ray that hits the group's box, local_intersect returns the intersections
\* of its children, each child's once and no others, in ascending order of t; and
\* World::intersect does so for the shapes the world lists.
C24_MergedAscending ==
    (probe.st = "ok" /\ probe.box_hit) =>
       /\ SameIntersections(probe.xs, EachChild(probe.children_ids, probe.ray))
       /\ Ascending(probe.xs)
       /\ LET world(w) == /\ w.st = "ok"
                          /\ SameIntersections(w.xs, EachChild(probe.children_ids, probe.ray))
                          /\ Ascending(w.xs)
          IN  world(World_intersect(objects, probe.children_ids, probe.ray))

\* a ray has hit the box of a group that holds a group, and the children's intersections,
\* taken child after child, were not in ascending order
C24_Witness ==
    /\ probe.st = "ok" /\ probe.box_hit
    /\ \E k \in 1 .. Len(probe.children_ids) :
          Slot(objects, probe.children_ids[k]).kind = "group"
    /\ Len(probe.xs) >= 4
    /\ ~Ascending(EachChild(probe.children_ids, probe.ray))

(* Properties of the two tests for total internal reflection *)
\* the preconditions of the comparison: |dot(eyev, normalv)| <= 1, transparency > 0,
\* remaining > 0
TirCompared ==
    /\ calc.fn = "tir"
    /\ ~RGt(RMul(calc.cos, calc.cos), ROne)
    /\ calc.transparency[1] > 0
    /\ calc.remaining > 0

\* C25 as stated: refracted_color returns black at its sin2_t cutoff exactly when schlick
\* takes its early return of 1.0, for all prepared computations with |cos| <= 1,
\* transparency > 0 and remaining > 0.
C25_SameTest ==
    TirCompared => (calc.cutoff <=> calc.early)

\* C25, amended: the same, for prepared computations whose n1 is not negative.
C25_SameTestNonNegative ==
    (TirCompared /\ calc.n1 >= 0) => (calc.cutoff <=> calc.early)

\* both tests have fired on the same prepared computations with n1 >= 0
C25_Witness ==
    /\ TirCompared /\ calc.n1 >= 0
    /\ calc.cutoff /\ calc.early

C27_ChildrenKnowParent ==
    LET groups == { [id |-> objects[j].gid, children_ids |-> objects[j].children_ids] :
                       j \in { i \in 1 .. Len(objects) : objects[i].kind = "group" } }
                    \cup { [id |-> g.id, children_ids |-> g.children_ids] : g \in locals }
    IN  \A G \in groups :
           \A k \in 1 .. Len(G.children_ids) :
              /\ Filled(objects, G.children_ids[k])
              /\ Slot(objects, G.children_ids[k]).parent_id = G.id

(* Properties of the number of color_at_internal calls *)
\* C29: during one color_at call every color_at_internal call sees a remaining in
\* 0 .. MAX_REFLECTION_RECURSION, the calls nest at most MAX_REFLECTION_RECURSION + 1
\* deep, each makes at most two nested calls, and at most
\* 2^(MAX_REFLECTION_RECURSION + 1) - 1 = 63 calls are made in all.
C29_CallBudget ==
    calc.fn = "color_at" =>
       /\ \A i \in 1 .. Len(calc.stack) :
             /\ calc.stack[i].remaining \in 0 .. MAX_REFLECTION_RECURSION
             /\ calc.stack[i].nested <= 2
       /\ Len(calc.stack) <= MAX_REFLECTION_RECURSION + 1
       /\ calc.calls <= 2 ^ (MAX_REFLECTION_RECURSION + 1) - 1
       /\ calc.pc # "overflow"

\* a color_at call has returned after 63 color_at_internal calls
C29_Witness ==
    /\ calc.fn = "color_at" /\ calc.pc = "done"
    /\ calc.calls = 2 ^ (MAX_REFLECTION_RECURSION + 1) - 1

(* Properties of the shapes that intersections refer to *)
\* every intersection of the list refers to a slot that holds a primitive
OnPrimitives(list) ==
    \A k \in 1 .. Len(list) :
       Filled(objects, list[k].object) /\ Slot(objects, list[k].object).kind = "prim"

\* C30: no intersection that Group::local_intersect, Shape::intersect on its children or
\* World::intersect returns refers to a group, however deep the groups nest: the object
\* of every intersection is a primitive.
C30_NoGroupIntersected ==
    probe.st = "ok" =>
       /\ OnPrimitives(probe.xs)
       /\ OnPrimitives(EachChild(probe.children_ids, probe.ray))
       /\ LET world(w) == w.st = "ok" /\ OnPrimitives(w.xs)
          IN  world(World_intersect(objects, probe.children_ids, probe.ray))

\* a ray has hit a primitive that lies in a group within the group
C30_Witness ==
    /\ probe.st = "ok"
    /\ \E k \in 1 .. Len(probe.xs) :
          /\ ~Contains(probe.children_ids, probe.xs[k].object)
          /\ \E g \in 1 .. Len(probe.children_ids) :
                LET child == Slot(objects, probe.children_ids[g])
                IN  child.kind = "group" /\ Contains(child.children_ids, probe.xs[k].object)

====
